---- MODULE Spec2Model ----
(***************************************************************************)
(* Model of the Datalysis python backend: the EDA engine                   *)
(* (python_backend/eda_engine.py, eda_methods.py, specialized_eda.py) and  *)
(* the cleaning pipeline (python_backend/enhanced_data_cleaner.py).        *)
(*                                                                         *)
(* Conventions                                                             *)
(*  - python floats are modelled as exact rationals [num, den], den > 0;   *)
(*  - python strings that the code inspects character by character         *)
(*    (column names, text cells) are sequences of one-character strings;   *)
(*  - a cell of a frame is <<>> when missing (NaN) and <<value>> otherwise. *)
(***************************************************************************)
EXTENDS Integers, Sequences, FiniteSets, TLC

VARIABLES
    pc,               \* position of the running call
    df,               \* the DataFrame handed to analyze_and_execute_eda
    target_column,    \* its target_column argument
    characteristics,  \* IntelligentEDAEngine.characteristics
    eda_type,         \* IntelligentEDAEngine.eda_type
    results,          \* the report under construction / returned
    exception,        \* the exception that left the call, or None
    config,           \* the config argument of comprehensive_clean
    cleaned_df,       \* comprehensive_clean's working copy of the frame
    cleaning_log,     \* EnhancedDataCleaner.cleaning_log
    stages_run,       \* history: the numbers of the stages that were run
    entry,            \* the entry point called and its arguments, or None
    llm_calls         \* history: the calls made to the language model


cleaner_vars == <<config, cleaned_df, cleaning_log, stages_run>>
vars == <<pc, df, target_column, characteristics, eda_type, results, exception,
          cleaner_vars, entry, llm_calls>>

None == "None"
\* target_column=None, among column labels (sequences of characters)
NoTarget == <<None>>

(***************************************************************************)
(* Rationals                                                               *)
(***************************************************************************)
Rat(n, d) == [num |-> n, den |-> d]
\* q > k; a zero denominator is the float nan (0/0), every comparison with
\* which is False
RatGT(q, k) == q.den > 0 /\ q.num > k * q.den
RatLT(q, k) == q.den > 0 /\ q.num < k * q.den

RECURSIVE SeqSum(_)
SeqSum(s) == IF s = <<>> THEN 0 ELSE Head(s) + SeqSum(Tail(s))

Min(a, b) == IF a < b THEN a ELSE b
Max(a, b) == IF a > b THEN a ELSE b

(***************************************************************************)
(* python str operations on sequences of characters                        *)
(***************************************************************************)
\* str.lower(), on the upper-case letters the model's strings use
UpperCase == <<"A","B","C","D","E","F","G","H","I","J","K","L","M",
               "N","O","P","Q","R","S","T","U","V","W","X","Y","Z">>
LowerCase == <<"a","b","c","d","e","f","g","h","i","j","k","l","m",
               "n","o","p","q","r","s","t","u","v","w","x","y","z">>
LowerChar(c) ==
    IF \E i \in DOMAIN UpperCase : UpperCase[i] = c
    THEN LowerCase[CHOOSE i \in DOMAIN UpperCase : UpperCase[i] = c]
    ELSE c
Lower(s) == [i \in DOMAIN s |-> LowerChar(s[i])]

\* python `kw in s` for strings
Contains(s, kw) ==
    \E i \in 0..(Len(s) - Len(kw)) : SubSeq(s, i + 1, i + Len(kw)) = kw

(***************************************************************************)
(* eda_engine.py: EDAType                                                  *)
(***************************************************************************)
BASIC == "basic"
COMPLEX == "complex"
TEXTUAL == "textual"
GEOSPATIAL == "geospatial"
TIMESERIES == "timeseries"
EDAType == {BASIC, COMPLEX, TEXTUAL, GEOSPATIAL, TIMESERIES}

ZeroDivisionError == "ZeroDivisionError"

\* number of TRUE entries of a sequence of booleans: python sum(list of bool)
RECURSIVE SumBool(_)
SumBool(s) == IF s = <<>> THEN 0 ELSE (IF Head(s) THEN 1 ELSE 0) + SumBool(Tail(s))

\* complex_conditions without the is_high_dimensional entry
complex_conditions_no_high_dim(c) ==
    << RatGT(c.complexity_score, 60),
       c.high_cardinality_columns > 3,
       c.is_imbalanced /\ c.has_target_variable,
       RatGT(c.missing_percentage, 15),
       c.columns > 15 >>

complex_conditions(c) ==
    << c.is_high_dimensional,
       RatGT(c.complexity_score, 60),
       c.high_cardinality_columns > 3,
       c.is_imbalanced /\ c.has_target_variable,
       RatGT(c.missing_percentage, 15),
       c.columns > 15 >>

\* _determine_eda_type asking for more than two Complex conditions
_determine_eda_type_three_conditions(c) ==
    IF c.geospatial_columns >= 2 THEN GEOSPATIAL
    ELSE IF c.text_columns >= 2 THEN TEXTUAL
    ELSE IF c.columns = 0 THEN ZeroDivisionError
    ELSE IF c.text_columns * 10 > 3 * c.columns THEN TEXTUAL
    ELSE IF c.is_time_series /\ c.datetime_columns > 0 THEN TIMESERIES
    ELSE IF SumBool(complex_conditions(c)) > 2 THEN COMPLEX
    ELSE BASIC

\* _determine_eda_type testing the text rule before the geospatial rule
_determine_eda_type_text_first(c) ==
    IF c.text_columns >= 2 THEN TEXTUAL
    ELSE IF c.columns = 0 THEN ZeroDivisionError
    ELSE IF c.text_columns * 10 > 3 * c.columns THEN TEXTUAL
    ELSE IF c.geospatial_columns >= 2 THEN GEOSPATIAL
    ELSE IF c.is_time_series /\ c.datetime_columns > 0 THEN TIMESERIES
    ELSE IF SumBool(complex_conditions(c)) >= 2 THEN COMPLEX
    ELSE BASIC

\* _determine_eda_type counting the Complex conditions before the
\* time-series rule
_determine_eda_type_complex_first(c) ==
    IF c.geospatial_columns >= 2 THEN GEOSPATIAL
    ELSE IF c.text_columns >= 2 THEN TEXTUAL
    ELSE IF c.columns = 0 THEN ZeroDivisionError
    ELSE IF c.text_columns * 10 > 3 * c.columns THEN TEXTUAL
    ELSE IF SumBool(complex_conditions(c)) >= 2 THEN COMPLEX
    ELSE IF c.is_time_series /\ c.datetime_columns > 0 THEN TIMESERIES
    ELSE BASIC

\* IntelligentEDAEngine._determine_eda_type; text_columns / columns is a
\* float division and raises ZeroDivisionError when columns = 0.
_determine_eda_type(c) ==
    IF c.geospatial_columns >= 2 THEN GEOSPATIAL
    ELSE IF c.text_columns >= 2 THEN TEXTUAL
    ELSE IF c.columns = 0 THEN ZeroDivisionError
    ELSE IF c.text_columns * 10 > 3 * c.columns THEN TEXTUAL
    ELSE IF c.is_time_series /\ c.datetime_columns > 0 THEN TIMESERIES
    ELSE IF SumBool(complex_conditions(c)) >= 2 THEN COMPLEX
    ELSE BASIC

(***************************************************************************)
(* A DataFrame as the analyzer and the analysis steps see it:              *)
(*   [rows, columns, duplicated], columns a sequence of                    *)
(*   [name, dtype, value_counts, avg_length] with                          *)
(*     name          the column label, a sequence of characters            *)
(*     dtype         "number" | "object" | "category" | "datetime64"       *)
(*     value_counts  df[col].value_counts(): the count of every distinct   *)
(*                   non-null value, largest first                         *)
(*     avg_length    df[col].astype(str).str.len().mean()                  *)
(*   duplicated is df.duplicated().sum().                                  *)
(***************************************************************************)
nunique(col) == Len(col.value_counts)
count(col) == SeqSum(col.value_counts)          \* non-null cells
isnull_sum(d, col) == d.rows - count(col)       \* null cells

is_numeric(col) == col.dtype = "number"
is_categorical(col) == col.dtype \in {"object", "category"}
is_datetime(col) == col.dtype = "datetime64"

\* df.select_dtypes(...).columns, as the sub-sequence of column descriptors
numeric_cols(d) == SelectSeq(d.columns, is_numeric)
categorical_cols(d) == SelectSeq(d.columns, is_categorical)
datetime_cols(d) == SelectSeq(d.columns, is_datetime)

geo_terms ==
    { <<"l","a","t">>, <<"l","o","n">>, <<"l","n","g">>,
      <<"l","a","t","i","t","u","d","e">>, <<"l","o","n","g","i","t","u","d","e">>,
      <<"c","o","o","r","d">>, <<"g","e","o">> }

\* eda_engine.py 114: avg_length > 50 or unique_ratio > 0.8
is_text_col(d, col) == col.avg_length > 50 \/ nunique(col) * 10 > 8 * d.rows
\* line 116 read as an if of its own instead of the elif of line 114
is_high_cardinality_col_not_exclusive(d, col) == nunique(col) > 50

\* eda_engine.py 116: elif nunique > 50
is_high_cardinality_col(d, col) == ~is_text_col(d, col) /\ nunique(col) > 50

is_geo_named(col) == \E t \in geo_terms : Contains(Lower(col.name), t)
is_time_named(col) ==
    Contains(Lower(col.name), <<"t","i","m","e">>) \/ Contains(Lower(col.name), <<"d","a","t","e">>)

\* the sum of the tiers returned without the final min(score, 100)
_calculate_complexity_score_unclamped(rows, columns, n_numeric, n_categorical, n_text, n_high_cardinality, is_time_series, n_geospatial, missing_percentage) ==
    LET size == IF rows > 10000 THEN 15 ELSE IF rows > 1000 THEN 10 ELSE 5
        width == IF columns > 50 THEN 20 ELSE IF columns > 20 THEN 15
                 ELSE IF columns > 10 THEN 10 ELSE 5
        types2 == 2 * Min(n_numeric * 2, 20) + Min(n_categorical * 3, 30)
                  + 2 * Min(n_text * 3, 15) + 2 * Min(n_high_cardinality * 2, 10)
        special == (IF is_time_series THEN 10 ELSE 0)
                   + (IF n_geospatial > 0 THEN 10 ELSE 0)
        quality == IF RatGT(missing_percentage, 20) THEN 10
                   ELSE IF RatGT(missing_percentage, 10) THEN 5 ELSE 0
    IN  Rat(2 * (size + width + special + quality) + types2, 2)

\* IntelligentEDAEngine._calculate_complexity_score; the score is a multiple
\* of 0.5 (categorical_cols * 1.5), returned as a rational over 2
_calculate_complexity_score(rows, columns, n_numeric, n_categorical, n_text, n_high_cardinality, is_time_series, n_geospatial, missing_percentage) ==
    LET size == IF rows > 10000 THEN 15 ELSE IF rows > 1000 THEN 10 ELSE 5
        width == IF columns > 50 THEN 20 ELSE IF columns > 20 THEN 15
                 ELSE IF columns > 10 THEN 10 ELSE 5
        types2 == 2 * Min(n_numeric * 2, 20) + Min(n_categorical * 3, 30)
                  + 2 * Min(n_text * 3, 15) + 2 * Min(n_high_cardinality * 2, 10)
        special == (IF is_time_series THEN 10 ELSE 0)
                   + (IF n_geospatial > 0 THEN 10 ELSE 0)
        quality == IF RatGT(missing_percentage, 20) THEN 10
                   ELSE IF RatGT(missing_percentage, 10) THEN 5 ELSE 0
        score2 == 2 * (size + width + special + quality) + types2
    IN  Rat(Min(score2, 200), 2)

target_col(d, target) ==
    LET i == CHOOSE j \in DOMAIN d.columns : d.columns[j].name = target
    IN  d.columns[i]

\* eda_engine.py 141
has_target(d, target) ==
    target # NoTarget /\ \E i \in DOMAIN d.columns : d.columns[i].name = target

\* eda_engine.py 142-147: value_counts(normalize=True), first share > 0.8 or
\* last share < 0.1
imbalanced(d, target) ==
    /\ has_target(d, target)
    /\ is_categorical(target_col(d, target))
    /\ LET vc == target_col(d, target).value_counts
           n == SeqSum(vc)
       IN  /\ Len(vc) > 1
           /\ \/ vc[1] * 10 > 8 * n
              \/ vc[Len(vc)] * 10 < n

\* IntelligentEDAEngine._analyze_dataset_characteristics.  nunique() / len(df)
\* (line 111) divides two python ints and raises ZeroDivisionError for a
\* frame without rows that has an object/category column; the numpy divisions
\* of lines 137-138 yield nan instead.
_analyze_dataset_characteristics(d, target) ==
    IF d.rows = 0 /\ categorical_cols(d) # <<>> THEN [exc |-> ZeroDivisionError, value |-> None]
    ELSE
    LET rows == d.rows
        columns == Len(d.columns)
        text_cols == {i \in DOMAIN d.columns :
                        is_categorical(d.columns[i]) /\ is_text_col(d, d.columns[i])}
        high_cardinality_cols == {i \in DOMAIN d.columns :
                        is_categorical(d.columns[i])
                        /\ is_high_cardinality_col(d, d.columns[i])}
        geospatial_cols == Cardinality({i \in DOMAIN d.columns : is_geo_named(d.columns[i])})
        is_time_series == Len(datetime_cols(d)) > 0 \/ Cardinality({i \in DOMAIN d.columns : is_time_named(d.columns[i])}) > 0
        is_high_dimensional == columns > 20 \/ Len(numeric_cols(d)) > 15
        missing == SeqSum([i \in DOMAIN d.columns |-> isnull_sum(d, d.columns[i])])
        missing_percentage == Rat(missing * 100, rows * columns)
        duplicate_percentage == Rat(d.duplicated * 100, rows)
    IN  [ exc |-> None, value |->
        [ rows |-> rows,
          columns |-> columns,
          numeric_columns |-> Len(numeric_cols(d)),
          categorical_columns |-> Len(categorical_cols(d)),
          text_columns |-> Cardinality(text_cols),
          datetime_columns |-> Len(datetime_cols(d)),
          geospatial_columns |-> geospatial_cols,
          high_cardinality_columns |-> Cardinality(high_cardinality_cols),
          missing_percentage |-> missing_percentage,
          duplicate_percentage |-> duplicate_percentage,
          is_time_series |-> is_time_series,
          is_high_dimensional |-> is_high_dimensional,
          is_imbalanced |-> imbalanced(d, target),
          has_target_variable |-> has_target(d, target),
          complexity_score |->
              _calculate_complexity_score(rows, columns, Len(numeric_cols(d)),
                  Len(categorical_cols(d)), Cardinality(text_cols),
                  Cardinality(high_cardinality_cols), is_time_series,
                  geospatial_cols, missing_percentage) ] ]

(***************************************************************************)
(* The analysis steps.  A step returns the kind of block it produces:      *)
(*   "result"   a populated block                                          *)
(*   "message"  {'message': ...}                                           *)
(*   "error"    a block whose entries are {'error': ...} stubs written by  *)
(*              the step's own except clause                               *)
(*   "empty"    {} or []                                                   *)
(* or the name of the exception it lets escape.                            *)
(* The frames of the model hold no two perfectly correlated non-constant   *)
(* numeric columns, and their nulls are aligned across columns.            *)
(***************************************************************************)
Exceptions == {"ZeroDivisionError", "IndexError", "AttributeError"}

Head3(s) == SubSeq(s, 1, Min(3, Len(s)))
Head2(s) == SubSeq(s, 1, Min(2, Len(s)))
\* EDAMethods._basic_summary_stats
_basic_summary_stats(d) == "result"

\* EDAMethods._basic_data_quality
_basic_data_quality(d) == "result"

\* EDAMethods._basic_distributions: one entry per numeric column with data
_basic_distributions(d) ==
    LET has_data(col) == count(col) > 0
    IN  IF (\E i \in DOMAIN numeric_cols(d) : has_data(numeric_cols(d)[i])) THEN "result" ELSE "empty"

\* EDAMethods._basic_correlations
_basic_correlations(d) ==
    IF Len(numeric_cols(d)) < 2 THEN "message" ELSE "result"

\* EDAMethods._basic_visualizations
_basic_visualizations(d) ==
    IF numeric_cols(d) = <<>> /\ categorical_cols(d) = <<>> THEN "empty" ELSE "result"

\* EDAMethods._basic_insights, lines 236-240: with 2 or more numeric columns
\* max_corr[max_corr < 1.0].iloc[0] is evaluated; the selection is empty, and
\* .iloc[0] raises IndexError, when no correlation is below 1.0 (a constant
\* column correlates nan with every column)
_basic_insights(d, target) ==
    LET varying(col) == nunique(col) >= 2
        n_varying == Len(SelectSeq(numeric_cols(d), varying))
    IN  IF Len(numeric_cols(d)) >= 2 /\ n_varying < 2 THEN "IndexError"
        ELSE "result"

\* EDAMethods._multivariate_analysis; _analyze_target_relationships reads
\* value_counts.index[0] of a non-numeric target
_multivariate_analysis(d, target) ==
    IF Len(numeric_cols(d)) < 3 THEN "message"
    ELSE IF /\ has_target(d, target)
            /\ ~is_numeric(target_col(d, target))
            /\ count(target_col(d, target)) = 0 THEN "IndexError"
    ELSE "result"

\* EDAMethods._dimensionality_reduction
_dimensionality_reduction(d) ==
    LET has_data(col) == count(col) > 0
    IN  IF Len(numeric_cols(d)) < 3 THEN "message"
        ELSE IF ~(\E i \in DOMAIN numeric_cols(d) : has_data(numeric_cols(d)[i])) \/ d.rows = 0 THEN "message"
        ELSE "result"

\* EDAMethods._feature_importance_analysis
_feature_importance_analysis(d, target) ==
    LET not_target(col) == col.name # target
        feature_cols == SelectSeq(numeric_cols(d), not_target)
        short(col) == count(col) < 10
    IN  IF ~has_target(d, target) THEN "message"
        ELSE IF Len(feature_cols) < 2 THEN "message"
        ELSE IF (\E i \in DOMAIN feature_cols : short(feature_cols[i])) \/ count(target_col(d, target)) < 10
        THEN "message"
        ELSE "result"

\* EDAMethods._statistical_tests
_statistical_tests(d, target) == "result"

\* EDAMethods._clustering_analysis
_clustering_analysis(d) ==
    LET short(col) == count(col) < 10
    IN  IF Len(numeric_cols(d)) < 2 THEN "message"
        ELSE IF (\E i \in DOMAIN numeric_cols(d) : short(numeric_cols(d)[i])) THEN "message"
        ELSE "result"

\* self._advanced_correlation_analysis, self._advanced_outlier_analysis and
\* self._feature_interaction_analysis (eda_engine.py 281-283) are defined by
\* no class of the repository: the attribute lookup raises AttributeError
_advanced_correlation_analysis(d) == "AttributeError"
_advanced_outlier_analysis(d) == "AttributeError"
_feature_interaction_analysis(d, target) == "AttributeError"

(***************************************************************************)
(* specialized_eda.py                                                      *)
(***************************************************************************)

\* the rows df[[a, b]].dropna() keeps
paired(a, b) == Min(count(a), count(b))

\* SpecializedEDAMethods._identify_geo_columns: geo-named and numeric
_identify_geo_columns(d) ==
    LET geo(col) == is_geo_named(col) /\ is_numeric(col)
    IN  SelectSeq(d.columns, geo)

\* SpecializedEDAMethods._identify_text_columns: object dtype with data and
\* avg_length > 20 or unique_ratio > 0.7
_identify_text_columns(d) ==
    LET text(col) == /\ col.dtype = "object"
                     /\ count(col) > 0
                     /\ (col.avg_length > 20 \/ nunique(col) * 10 > 7 * count(col))
    IN  SelectSeq(d.columns, text)

\* SpecializedEDAMethods._temporal_pattern_analysis: datetime columns, else the
\* columns named date/time/year/month, coerced with pd.to_datetime; the
\* model's non-datetime columns hold no parseable date
_temporal_pattern_analysis(d) ==
    LET named(col) == \E kw \in {<<"d","a","t","e">>, <<"t","i","m","e">>, <<"y","e","a","r">>, <<"m","o","n","t","h">>} :
                          Contains(Lower(col.name), kw)
        has_data(col) == count(col) > 0
    IN  IF datetime_cols(d) # <<>>
        THEN IF (\E i \in DOMAIN Head2(datetime_cols(d)) : has_data(Head2(datetime_cols(d))[i])) THEN "result" ELSE "empty"
        ELSE IF SelectSeq(d.columns, named) = <<>> THEN "message"
        ELSE "empty"

\* the shared shape of _seasonality_analysis, _trend_analysis and
\* _time_series_decomposition: first datetime column against the first k
\* numeric columns, a pair skipped below min_len rows
DatePairs(d, k, min_len) ==
    LET nums == SubSeq(numeric_cols(d), 1, Min(k, Len(numeric_cols(d))))
        enough(col) == paired(datetime_cols(d)[1], col) >= min_len
    IN  IF datetime_cols(d) = <<>> \/ numeric_cols(d) = <<>> THEN "message"
        ELSE IF (\E i \in DOMAIN nums : enough(nums[i])) THEN "result"
        ELSE "empty"

\* SpecializedEDAMethods._seasonality_analysis
_seasonality_analysis(d) == DatePairs(d, 3, 12)
\* SpecializedEDAMethods._trend_analysis
_trend_analysis(d) == DatePairs(d, 3, 5)
\* SpecializedEDAMethods._time_series_decomposition
_time_series_decomposition(d) == DatePairs(d, 2, 24)

\* SpecializedEDAMethods._autocorrelation_analysis
_autocorrelation_analysis(d) ==
    LET enough(col) == count(col) >= 10
    IN  IF (\E i \in DOMAIN Head3(numeric_cols(d)) : enough(Head3(numeric_cols(d))[i])) THEN "result" ELSE "empty"

\* the coordinate pairs (geo_cols[i], geo_cols[i+1]), i = 0, 2, ..., whose
\* frame of valid coordinates has at least min_len rows; the model's
\* coordinates are within range
GeoPairs(d, min_len) ==
    LET g == _identify_geo_columns(d)
    IN  {i \in DOMAIN g : i % 2 = 1 /\ i + 1 <= Len(g)
                          /\ paired(g[i], g[i + 1]) >= min_len}

\* SpecializedEDAMethods._spatial_distribution_analysis
_spatial_distribution_analysis(d) ==
    IF Len(_identify_geo_columns(d)) < 2 THEN "message"
    ELSE IF GeoPairs(d, 1) = {} THEN "empty"
    ELSE "result"

\* SpecializedEDAMethods._geographic_pattern_analysis: self._grid_based_analysis
\* (line 333) is defined nowhere; the AttributeError is caught by line 347
_geographic_pattern_analysis(d) ==
    IF Len(_identify_geo_columns(d)) < 2 THEN "message"
    ELSE IF GeoPairs(d, 5) = {} THEN "empty"
    ELSE "error"

\* SpecializedEDAMethods._spatial_clustering_analysis:
\* self._calculate_cluster_radius (line 402) is defined nowhere; the
\* AttributeError is caught by line 412
_spatial_clustering_analysis(d) ==
    IF Len(_identify_geo_columns(d)) < 2 THEN "message"
    ELSE IF GeoPairs(d, 10) = {} THEN "empty"
    ELSE "error"

\* SpecializedEDAMethods._coordinate_validation: an entry per geo column
\* named lat / lon / lng
_coordinate_validation(d) ==
    LET validated(col) == \E kw \in {<<"l","a","t">>, <<"l","o","n">>, <<"l","n","g">>} :
                              Contains(Lower(col.name), kw)
    IN  IF (\E i \in DOMAIN _identify_geo_columns(d) : validated(_identify_geo_columns(d)[i])) THEN "result" ELSE "empty"

\* SpecializedEDAMethods._text_statistics_analysis
_text_statistics_analysis(d) ==
    IF _identify_text_columns(d) = <<>> THEN "message" ELSE "result"
\* SpecializedEDAMethods._text_pattern_analysis
_text_pattern_analysis(d) ==
    IF _identify_text_columns(d) = <<>> THEN "empty" ELSE "result"
\* SpecializedEDAMethods._vocabulary_analysis
_vocabulary_analysis(d) ==
    IF _identify_text_columns(d) = <<>> THEN "empty" ELSE "result"
\* SpecializedEDAMethods._text_quality_analysis
_text_quality_analysis(d) ==
    IF _identify_text_columns(d) = <<>> THEN "empty" ELSE "result"

(***************************************************************************)
(* The strategies.  A dict display evaluates its values in order, so the   *)
(* first step that raises ends the construction.                           *)
(***************************************************************************)
\* the outcome of evaluating {keys[1]: outs[1], ...}
Display(keys, outs) ==
    LET raising == {i \in DOMAIN outs : outs[i] \in Exceptions}
        first == CHOOSE i \in raising : \A j \in raising : i <= j
    IN  IF raising # {}
        THEN [ok |-> FALSE, exc |-> outs[first], dict |-> <<>>]
        ELSE [ok |-> TRUE, exc |-> None,
              dict |-> [k \in {keys[i] : i \in DOMAIN keys} |->
                            outs[CHOOSE i \in DOMAIN keys : keys[i] = k]]]

\* base.update(more), either of which may have raised
Update(base, more) ==
    IF ~base.ok THEN base
    ELSE IF ~more.ok THEN more
    ELSE [ok |-> TRUE, exc |-> None, dict |-> more.dict @@ base.dict]

BasicKeys ==
    <<"eda_type", "summary_statistics", "data_quality", "distributions",
      "correlations", "visualizations", "insights">>

\* IntelligentEDAEngine._execute_basic_eda
_execute_basic_eda(d, target) ==
    Display(BasicKeys,
        << BASIC, _basic_summary_stats(d), _basic_data_quality(d),
           _basic_distributions(d), _basic_correlations(d),
           _basic_visualizations(d), _basic_insights(d, target) >>)

\* IntelligentEDAEngine._execute_complex_eda
_execute_complex_eda(d, target) ==
    Update(_execute_basic_eda(d, target),
        Display(<<"eda_type", "multivariate_analysis", "dimensionality_reduction",
                  "feature_importance", "statistical_tests", "clustering_analysis",
                  "advanced_correlations", "outlier_analysis", "feature_interactions">>,
            << COMPLEX, _multivariate_analysis(d, target),
               _dimensionality_reduction(d),
               _feature_importance_analysis(d, target),
               _statistical_tests(d, target), _clustering_analysis(d),
               _advanced_correlation_analysis(d), _advanced_outlier_analysis(d),
               _feature_interaction_analysis(d, target) >>))

\* IntelligentEDAEngine._execute_timeseries_eda
_execute_timeseries_eda(d, target) ==
    Update(_execute_basic_eda(d, target),
        Display(<<"eda_type", "temporal_patterns", "seasonality_analysis",
                  "trend_analysis", "time_series_decomposition", "autocorrelation">>,
            << TIMESERIES, _temporal_pattern_analysis(d), _seasonality_analysis(d),
               _trend_analysis(d), _time_series_decomposition(d),
               _autocorrelation_analysis(d) >>))

\* IntelligentEDAEngine._execute_geospatial_eda
_execute_geospatial_eda(d, target) ==
    Update(_execute_basic_eda(d, target),
        Display(<<"eda_type", "spatial_distribution", "geographic_patterns",
                  "spatial_clustering", "coordinate_validation">>,
            << GEOSPATIAL, _spatial_distribution_analysis(d),
               _geographic_pattern_analysis(d), _spatial_clustering_analysis(d),
               _coordinate_validation(d) >>))

\* IntelligentEDAEngine._execute_textual_eda
_execute_textual_eda(d, target) ==
    Update(_execute_basic_eda(d, target),
        Display(<<"eda_type", "text_statistics", "text_patterns",
                  "vocabulary_analysis", "text_quality">>,
            << TEXTUAL, _text_statistics_analysis(d), _text_pattern_analysis(d),
               _vocabulary_analysis(d), _text_quality_analysis(d) >>))

\* analyze_and_execute_eda, step 3: the dispatch on self.eda_type
execute_eda(type, d, target) ==
    CASE type = BASIC -> _execute_basic_eda(d, target)
      [] type = COMPLEX -> _execute_complex_eda(d, target)
      [] type = TIMESERIES -> _execute_timeseries_eda(d, target)
      [] type = GEOSPATIAL -> _execute_geospatial_eda(d, target)
      [] type = TEXTUAL -> _execute_textual_eda(d, target)
      [] OTHER -> _execute_basic_eda(d, target)

\* results['eda_metadata'] written without its timestamp
eda_metadata_without_timestamp(type, c) ==
    [ eda_type |-> type,
      characteristics |-> c,
      analysis_summary |-> [ recommended_eda_type |-> type,
                             complexity_score |-> c.complexity_score ] ]

\* analyze_and_execute_eda, step 4: results['eda_metadata']
eda_metadata(type, c) ==
    [ eda_type |-> type,
      characteristics |-> c,
      timestamp |-> "now",
      analysis_summary |-> [ recommended_eda_type |-> type,
                             complexity_score |-> c.complexity_score ] ]

(***************************************************************************)
(* The frames the engine is run on                                         *)
(***************************************************************************)
MaxNumeric == 21     \* widest run of plain numeric columns
MaxGeoCols == 2      \* geo-named numeric columns
MaxTextCols == 2     \* free-text columns
HighCardCols == 4    \* high-cardinality columns of a large frame
SmallRows == 10
LargeRows == 100

name_kind == <<"k","i","n","d">>

Frames ==
    LET Ones(n) == [i \in 1..n |-> 1]
    IN
    LET \* value_counts of a column of n cells holding two values, a of the first
        TwoValues(n, a) ==
            IF n = 0 THEN <<>> ELSE IF a >= n \/ a = 0 THEN <<n>> ELSE <<Max(a, n - a), Min(a, n - a)>>
    IN
    LET geo_name(i) ==
            IF i = 1 THEN <<"L","a","t">> ELSE IF i = 2 THEN <<"l","o","n">>
            ELSE <<"g","e","o",ToString(i)>>
    IN
    LET Column(name, dtype, vc, len) ==
            [name |-> name, dtype |-> dtype, value_counts |-> vc, avg_length |-> len]
    IN
    LET \* rows, the null cells of each plain numeric column, and how many columns
        \* of each sort
        Frame(rows, nulls, n) ==
            [ rows |-> rows,
              duplicated |-> 0,
              columns |->
                   [i \in 1..n.numeric |-> Column(<<"v", ToString(i)>>, "number", Ones(rows - nulls), 3)]
                \o [i \in 1..n.const |-> Column(<<"c", ToString(i)>>, "number", TwoValues(rows, rows), 1)]
                \o [i \in 1..n.geo |-> Column(geo_name(i), "number", Ones(rows), 5)]
                \o [i \in 1..n.platform |-> Column(<<"p","l","a","t","f","o","r","m">>, "object", TwoValues(rows, rows \div 2), 7)]
                \o [i \in 1..n.text |->
                       IF i % 2 = 1 THEN Column(<<"t", ToString(i)>>, "object", Ones(rows), 12)
                       ELSE Column(<<"t", ToString(i)>>, "object", TwoValues(rows, rows \div 2), 60)]
                \o [i \in 1..n.kind |-> Column(name_kind, "object", TwoValues(rows, 1), 4)]
                \o [i \in 1..n.high |->
                       Column(<<"h", ToString(i)>>, "object", <<rows - 50>> \o Ones(50), 6)]
                \o [i \in 1..n.datetime |-> Column(<<"o","r","d","e","r","_","d","a","t","e">>, "datetime64", Ones(rows), 10)]
                \o [i \in 1..n.update |-> Column(<<"u","p","d","a","t","e">>, "object", TwoValues(rows, rows \div 2), 3)] ]
    IN
    LET \* narrow frames: every mix of the column sorts over at most two plain
        \* numeric columns
        NarrowShapes ==
            [ numeric : 0..2, const : 0..1, geo : 0..MaxGeoCols, platform : 0..1,
              text : 0..MaxTextCols, kind : 0..1, high : {0},
              datetime : 0..1, update : 0..1 ]
    IN
    LET \* wide frames: around the 15-numeric and 20-column thresholds
        WideShapes ==
            [ numeric : {MaxNumeric - 6, MaxNumeric - 5, MaxNumeric}, const : {0},
              geo : {0, MaxGeoCols}, platform : {0}, text : {0, MaxTextCols},
              kind : 0..1, high : {0}, datetime : 0..1, update : {0} ]
    IN
    LET \* frames large enough to hold high-cardinality columns
        HighCardShapes ==
            [ numeric : 0..2, const : {0}, geo : {0}, platform : {0}, text : 0..1,
              kind : 0..1, high : {HighCardCols - 1, HighCardCols},
              datetime : 0..1, update : {0} ]
    IN
    {Frame(r, 0, n) : r \in {0, SmallRows}, n \in NarrowShapes \cup WideShapes}
    \cup {Frame(SmallRows, SmallRows \div 5, n) : n \in NarrowShapes \cup WideShapes}
    \cup {Frame(LargeRows, nulls, n) : nulls \in {0, LargeRows \div 5}, n \in HighCardShapes}

\* no target, a column of the frame when it has one, else a name it lacks
Targets == {NoTarget, name_kind}

(***************************************************************************)
(* Spec: IntelligentEDAEngine.analyze_and_execute_eda(df, target_column),  *)
(* one action per numbered step of the method.                             *)
(***************************************************************************)
Init ==
    /\ pc = "start"
    /\ df \in Frames
    /\ target_column \in Targets
    /\ characteristics = None
    /\ eda_type = None
    /\ results = None
    /\ exception = None
    /\ config = None
    /\ cleaned_df = None
    /\ cleaning_log = <<>>
    /\ stages_run = <<>>
    /\ entry = None
    /\ llm_calls = <<>>

\* Step 1: self.characteristics = self._analyze_dataset_characteristics(...)
AnalyzeCharacteristics ==
    /\ pc = "start"
    /\ LET c == _analyze_dataset_characteristics(df, target_column)
       IN  IF c.exc # None
           THEN /\ pc' = "raised"
                /\ exception' = c.exc
                /\ UNCHANGED characteristics
           ELSE /\ pc' = "analyzed"
                /\ characteristics' = c.value
                /\ UNCHANGED exception
    /\ UNCHANGED <<cleaner_vars, entry, llm_calls>>
    /\ UNCHANGED <<df, target_column, eda_type, results>>

\* step 2 returning the type an earlier run left in self.eda_type
DetermineTypeKeepingEarlier ==
    /\ pc = "analyzed"
    /\ LET t == IF eda_type # None THEN eda_type ELSE _determine_eda_type(characteristics)
       IN  IF t = ZeroDivisionError
           THEN /\ pc' = "raised"
                /\ exception' = t
                /\ UNCHANGED eda_type
           ELSE /\ pc' = "routed"
                /\ eda_type' = t
                /\ UNCHANGED exception
    /\ UNCHANGED <<cleaner_vars, entry, llm_calls>>
    /\ UNCHANGED <<df, target_column, characteristics, results>>

\* Step 2: self.eda_type = self._determine_eda_type(self.characteristics)
DetermineType ==
    /\ pc = "analyzed"
    /\ LET t == _determine_eda_type(characteristics)
       IN  IF t = ZeroDivisionError
           THEN /\ pc' = "raised"
                /\ exception' = t
                /\ UNCHANGED eda_type
           ELSE /\ pc' = "routed"
                /\ eda_type' = t
                /\ UNCHANGED exception
    /\ UNCHANGED <<cleaner_vars, entry, llm_calls>>
    /\ UNCHANGED <<df, target_column, characteristics, results>>

\* Step 3: results = self._execute_<type>_eda(df, target_column)
ExecuteEDA ==
    /\ pc = "routed"
    /\ LET r == execute_eda(eda_type, df, target_column)
       IN  IF r.ok
           THEN /\ pc' = "executed"
                /\ results' = r.dict
                /\ UNCHANGED exception
           ELSE /\ pc' = "raised"
                /\ exception' = r.exc
                /\ UNCHANGED results
    /\ UNCHANGED <<cleaner_vars, entry, llm_calls>>
    /\ UNCHANGED <<df, target_column, characteristics, eda_type>>

\* Step 4: results['eda_metadata'] = {...}; return results
AddMetadata ==
    /\ pc = "executed"
    /\ results' = ("eda_metadata" :> eda_metadata(eda_type, characteristics)) @@ results
    /\ pc' = "returned"
    /\ UNCHANGED <<cleaner_vars, entry, llm_calls>>
    /\ UNCHANGED <<df, target_column, characteristics, eda_type, exception>>

Next == AnalyzeCharacteristics \/ DetermineType \/ ExecuteEDA \/ AddMetadata

Spec == Init /\ [][Next]_vars

(***************************************************************************)
(* Properties of the engine                                                *)
(***************************************************************************)
GeoKeywords ==
    { <<"l","a","t">>, <<"l","o","n">>, <<"l","o","n","g","i","t","u","d","e">>,
      <<"l","a","t","i","t","u","d","e">>, <<"c","o","o","r","d">>, <<"g","e","o">>,
      <<"a","d","d","r","e","s","s">>, <<"c","i","t","y">>, <<"s","t","a","t","e">>,
      <<"c","o","u","n","t","r","y">>, <<"z","i","p">> }

C4_WideFrameIsComplex ==
    ( /\ pc \in {"routed", "executed", "returned"}
      /\ Len(df.columns) > 20
      /\ characteristics.geospatial_columns < 2
      /\ characteristics.text_columns < 2
      /\ characteristics.text_columns * 10 <= 3 * Len(df.columns)
      /\ \A i \in DOMAIN df.columns : df.columns[i].dtype # "datetime64" )
        => eda_type = COMPLEX

\* a frame of more than 20 columns without missing values has been routed
\* to Complex
C4_Witness ==
    /\ pc = "routed"
    /\ Len(df.columns) > 20
    /\ characteristics.missing_percentage = Rat(0, df.rows * Len(df.columns))
    /\ df.rows > 0
    /\ characteristics.datetime_columns = 0
    /\ eda_type = COMPLEX

BasicBlocks ==
    {"summary_statistics", "data_quality", "distributions", "correlations",
     "visualizations", "insights"}

\* C9: for each of the five EDA types the call returns a report that holds
\* the six Basic blocks, under the eda_type of the strategy that ran.
C9_EveryTypeReportsBasicBlocks ==
    \A t \in EDAType :
        (eda_type = t /\ pc \in {"executed", "returned", "raised"})
            => /\ pc # "raised"
               /\ BasicBlocks \subseteq DOMAIN results
               /\ results["eda_type"] = t

\* C10: once the frame is routed no exception of an analysis step leaves
\* analyze_and_execute_eda: the call ends with a report that has a slot for
\* every Basic step.
C10_StepExceptionsStayInside ==
    (pc = "raised" /\ eda_type \in EDAType) => exception \notin Exceptions

MetadataKeys == {"eda_type", "characteristics", "timestamp", "analysis_summary"}

\* C14 as stated: every returned report has the top-level keys eda_type and
\* characteristics, and an eda_metadata block with exactly the keys eda_type,
\* characteristics, timestamp and analysis_summary.
C14_ReportHasTopLevelCharacteristics ==
    pc = "returned"
        => /\ {"eda_type", "characteristics", "eda_metadata"} \subseteq DOMAIN results
           /\ DOMAIN results["eda_metadata"] = MetadataKeys

\* C14: every returned report has the top-level keys eda_type and
\* eda_metadata, the eda_metadata block has exactly the keys eda_type,
\* characteristics, timestamp and analysis_summary, and the characteristics
\* of the run are held inside eda_metadata only, not at the top level.
C14_ReportShape ==
    pc = "returned"
        => /\ {"eda_type", "eda_metadata"} \subseteq DOMAIN results
           /\ "characteristics" \notin DOMAIN results
           /\ DOMAIN results["eda_metadata"] = MetadataKeys
           /\ results["eda_metadata"].characteristics = characteristics
           /\ results["eda_metadata"].eda_type = eda_type

\* a Timeseries report has been returned with its metadata block
C14_Witness ==
    /\ pc = "returned"
    /\ eda_type = TIMESERIES
    /\ "eda_metadata" \in DOMAIN results
    /\ "autocorrelation" \in DOMAIN results

\* C15: when a specialised strategy has run on a frame without the column
\* types its steps require (no datetime column; fewer than 2 numeric
\* geo-named columns; no text-classified column), every slot of that strategy
\* holds a {message: ...} entry, never an empty mapping.
C15_MissingTypesGiveMessage ==
    pc \in {"executed", "returned"}
        => /\ (eda_type = TIMESERIES /\ datetime_cols(df) = <<>>)
                 => \A k \in {"temporal_patterns", "seasonality_analysis", "trend_analysis",
                              "time_series_decomposition", "autocorrelation"} :
                        results[k] = "message"
           /\ (eda_type = GEOSPATIAL /\ Len(_identify_geo_columns(df)) < 2)
                 => \A k \in {"spatial_distribution", "geographic_patterns",
                              "spatial_clustering", "coordinate_validation"} :
                        results[k] = "message"
           /\ (eda_type = TEXTUAL /\ _identify_text_columns(df) = <<>>)
                 => \A k \in {"text_statistics", "text_patterns", "vocabulary_analysis",
                              "text_quality"} :
                        results[k] = "message"

(***************************************************************************)
(* ReuseSpec: analyze_and_execute_eda called again and again on one        *)
(* IntelligentEDAEngine.  self.characteristics and self.eda_type keep the  *)
(* values of the previous call until steps 1 and 2 assign them; results is *)
(* the last report the caller was handed, no key before the first, until   *)
(* step 3 builds the next.                                                 *)
(***************************************************************************)
\* the frames of at most two columns
ReuseFrames == {d \in Frames : Len(d.columns) <= 2}

ReuseInit ==
    /\ pc = "start"
    /\ df \in ReuseFrames
    /\ target_column \in Targets
    /\ characteristics = None
    /\ eda_type = None
    /\ results = <<>>
    /\ exception = None
    /\ config = None
    /\ cleaned_df = None
    /\ cleaning_log = <<>>
    /\ stages_run = <<>>
    /\ entry = None
    /\ llm_calls = <<>>

\* the next call on the same instance, after the previous one returned or
\* raised: new arguments, the attributes of the instance as they were left
CallAgain ==
    /\ pc \in {"returned", "raised"}
    /\ pc' = "start"
    /\ df' \in ReuseFrames
    /\ target_column' \in Targets
    /\ exception' = None
    /\ UNCHANGED <<cleaner_vars, entry, llm_calls>>
    /\ UNCHANGED <<characteristics, eda_type, results>>

ReuseNext ==
    AnalyzeCharacteristics \/ DetermineType \/ ExecuteEDA \/ AddMetadata \/ CallAgain

ReuseSpec == ReuseInit /\ [][ReuseNext]_vars

\* C18: the type a call routes its frame to is the router's answer for the
\* characteristics of that frame, whatever characteristics and type earlier
\* calls left on the engine instance; calls with equal characteristics are
\* therefore routed alike: a call whose characteristics equal those of the
\* last report is given the type of that report.
C18_RoutingIgnoresEarlierRuns ==
    /\ pc \in {"routed", "executed", "returned"}
        => LET c == _analyze_dataset_characteristics(df, target_column)
           IN  /\ c.exc = None
               /\ characteristics = c.value
               /\ eda_type = _determine_eda_type(c.value)
    /\ ( /\ pc = "routed"
         /\ "eda_metadata" \in DOMAIN results
         /\ results["eda_metadata"].characteristics = characteristics )
        => eda_type = results["eda_metadata"].eda_type

\* a call has been routed to Basic on an instance whose previous call left
\* another type behind
C18_Witness ==
    /\ pc = "routed"
    /\ eda_type = BASIC
    /\ "eda_metadata" \in DOMAIN results
    /\ results["eda_metadata"].eda_type = GEOSPATIAL

(***************************************************************************)
(* RouterSpec: _determine_eda_type applied to characteristics drawn from   *)
(* bounded sets.                                                           *)
(***************************************************************************)
MaxColumns == 21     \* widest frame the router is given
MaxGeo == 2
MaxText == 2
MaxHighCard == 4

\* DatasetCharacteristics values whose counts are those of some frame: the
\* column sorts fit in the frame and is_high_dimensional is the analyzer's
\* columns > 20 or numeric_columns > 15
RouterInputs ==
    LET ColumnChoices == 0..3 \cup {MaxColumns - 6, MaxColumns - 5, MaxColumns - 1, MaxColumns}
    IN
    { c \in
        [ rows : {10},
          columns : ColumnChoices,
          numeric_columns : {0, 15, 16},
          categorical_columns : {0, MaxText + MaxHighCard},
          text_columns : 0..MaxText,
          datetime_columns : 0..1,
          geospatial_columns : 0..MaxGeo,
          high_cardinality_columns : {0, MaxHighCard - 1, MaxHighCard},
          missing_percentage : {Rat(0, 1), Rat(15, 1), Rat(31, 2)},
          duplicate_percentage : {Rat(0, 1)},
          is_time_series : BOOLEAN,
          is_high_dimensional : BOOLEAN,
          is_imbalanced : BOOLEAN,
          has_target_variable : BOOLEAN,
          complexity_score : {Rat(60, 1), Rat(121, 2)} ] :
        /\ c.numeric_columns + c.categorical_columns + c.datetime_columns <= c.columns
        /\ c.geospatial_columns <= c.columns
        /\ c.text_columns <= c.categorical_columns
        /\ c.high_cardinality_columns <= c.categorical_columns
        /\ c.datetime_columns > 0 => c.is_time_series
        /\ c.is_imbalanced => c.has_target_variable
        /\ c.is_high_dimensional <=> (c.columns > 20 \/ c.numeric_columns > 15) }

RouterInit ==
    /\ pc = "router_input"
    /\ characteristics \in RouterInputs
    /\ eda_type = None
    /\ df = None
    /\ target_column = NoTarget
    /\ results = None
    /\ exception = None
    /\ config = None
    /\ cleaned_df = None
    /\ cleaning_log = <<>>
    /\ stages_run = <<>>
    /\ entry = None
    /\ llm_calls = <<>>

Route ==
    /\ pc = "router_input"
    /\ eda_type' = _determine_eda_type(characteristics)
    /\ pc' = "router_done"
    /\ UNCHANGED <<cleaner_vars, entry, llm_calls>>
    /\ UNCHANGED <<df, target_column, characteristics, results, exception>>

RouterNext == Route

RouterSpec == RouterInit /\ [][RouterNext]_vars

C3_TimeseriesBeforeComplex ==
    LET c == characteristics
    IN  ( /\ pc = "router_done"
          /\ c.geospatial_columns < 2
          /\ c.text_columns < 2
          /\ c.text_columns * 10 <= 3 * c.columns
          /\ c.is_time_series
          /\ c.datetime_columns > 0 )
            => eda_type = TIMESERIES

\* Timeseries was returned for characteristics with missing_percentage > 15
\* and columns > 15, two Complex conditions
C3_Witness ==
    /\ pc = "router_done"
    /\ eda_type = TIMESERIES
    /\ RatGT(characteristics.missing_percentage, 15)
    /\ characteristics.columns > 15

(***************************************************************************)
(* ScoreSpec: _calculate_complexity_score applied to counts and a missing  *)
(* percentage drawn from bounded sets around the thresholds of its tiers.  *)
(***************************************************************************)
MaxCount == 11       \* most columns of one sort the score is given

ScoreInputs ==
    [ rows : {0, 1001, 10001},
      columns : {0, 11, 21, 50, 51},
      numeric_columns : {0, 1, MaxCount - 1, MaxCount},
      categorical_columns : {0, 1, MaxCount - 1, MaxCount},
      text_columns : {0, 1, MaxCount},
      high_cardinality_columns : {0, 1, MaxCount},
      is_time_series : BOOLEAN,
      geospatial_columns : {0, 1},
      missing_percentage : {Rat(0, 1), Rat(10, 1), Rat(21, 2), Rat(20, 1),
                            Rat(41, 2), Rat(100, 1)} ]

ScoreInit ==
    /\ pc = "score_input"
    /\ characteristics \in ScoreInputs
    /\ results = None
    /\ eda_type = None
    /\ df = None
    /\ target_column = NoTarget
    /\ exception = None
    /\ config = None
    /\ cleaned_df = None
    /\ cleaning_log = <<>>
    /\ stages_run = <<>>
    /\ entry = None
    /\ llm_calls = <<>>

\* complexity_score = self._calculate_complexity_score(...)
CalculateScore ==
    /\ pc = "score_input"
    /\ results' = _calculate_complexity_score(characteristics.rows, characteristics.columns,
                       characteristics.numeric_columns, characteristics.categorical_columns,
                       characteristics.text_columns, characteristics.high_cardinality_columns,
                       characteristics.is_time_series, characteristics.geospatial_columns,
                       characteristics.missing_percentage)
    /\ pc' = "scored"
    /\ UNCHANGED <<cleaner_vars, entry, llm_calls>>
    /\ UNCHANGED <<df, target_column, characteristics, eda_type, exception>>

ScoreNext == CalculateScore

ScoreSpec == ScoreInit /\ [][ScoreNext]_vars

\* C17: for non-negative counts and a missing percentage in [0,100] the
\* complexity score lies in [0,100]: it is at most 100 and at least 10, the
\* sum of the lowest size tier and the lowest column tier.
C17_ScoreWithinBounds ==
    pc = "scored"
        => /\ results.den > 0
           /\ ~RatGT(results, 100)
           /\ ~RatLT(results, 10)

\* the score of a frame whose tiers add up to more than 100 is 100
C17_Witness ==
    /\ pc = "scored"
    /\ characteristics.rows > 10000
    /\ characteristics.columns > 50
    /\ characteristics.numeric_columns >= 10
    /\ characteristics.categorical_columns >= 10
    /\ characteristics.text_columns >= 5
    /\ RatGT(characteristics.missing_percentage, 20)
    /\ results = Rat(200, 2)

(***************************************************************************)
(* ExtendSpec: _analyze_dataset_characteristics applied to a frame and to  *)
(* the frames obtained from it by appending a row or a column of a dtype   *)
(* the frame already has (pd.concat), the analysis run again after each.   *)
(* Columns are named c1, c2, ...: no geo or time keyword.                  *)
(***************************************************************************)
MaxExtendRows == 5
MaxExtendColumns == 3

ExtendFrames ==
    LET Values(rows) ==
            {[i \in 1..n |-> 1] : n \in 0..rows} \cup {<<n>> : n \in 1..rows}
    IN  UNION { UNION { { [ rows |-> rows, duplicated |-> 0,
                            columns |-> [i \in 1..n |->
                                [ name |-> <<"c", ToString(i)>>, dtype |-> dtypes[i],
                                  value_counts |-> vcs[i], avg_length |-> 3 ] ] ] :
                          dtypes \in [1..n -> {"number", "object"}],
                          vcs \in [1..n -> Values(rows)] } :
                        n \in 1..2 } :
                rows \in 1..2 }

ExtendInit ==
    /\ pc = "analyzed"
    /\ df \in ExtendFrames
    /\ target_column = NoTarget
    /\ characteristics = _analyze_dataset_characteristics(df, NoTarget).value
    /\ eda_type = None
    /\ results = None
    /\ exception = None
    /\ config = None
    /\ cleaned_df = None
    /\ cleaning_log = <<>>
    /\ stages_run = <<>>
    /\ entry = None
    /\ llm_calls = <<>>

\* the frame with one more row, each cell of which is null, a value its
\* column already holds, or a value new to its column
AppendRow ==
    /\ df.rows < MaxExtendRows
    /\ \E cells \in [DOMAIN df.columns -> {"null", "seen", "new"}] :
          LET grown(i) ==
                  LET vc == df.columns[i].value_counts
                  IN  IF cells[i] = "null" THEN vc
                      ELSE IF cells[i] = "seen" /\ vc # <<>> THEN [vc EXCEPT ![1] = @ + 1]
                      ELSE Append(vc, 1)
          IN  df' = [ rows |-> df.rows + 1, duplicated |-> 0,
                      columns |-> [i \in DOMAIN df.columns |->
                                      [df.columns[i] EXCEPT !.value_counts = grown(i)]] ]
    /\ characteristics' = _analyze_dataset_characteristics(df', NoTarget).value
    /\ UNCHANGED <<cleaner_vars, entry, llm_calls>>
    /\ UNCHANGED <<pc, target_column, eda_type, results, exception>>

\* the frame with one more column, of the dtype of one of its columns, with
\* some null cells and the other cells all different or all equal
AppendColumn ==
    /\ Len(df.columns) < MaxExtendColumns
    /\ \E i \in DOMAIN df.columns, filled \in 0..df.rows, distinct \in BOOLEAN :
          df' = [df EXCEPT !.columns = Append(@,
                    [ name |-> <<"c", ToString(Len(df.columns) + 1)>>,
                      dtype |-> df.columns[i].dtype,
                      value_counts |-> IF distinct THEN [j \in 1..filled |-> 1]
                                       ELSE IF filled = 0 THEN <<>> ELSE <<filled>>,
                      avg_length |-> 3 ])]
    /\ characteristics' = _analyze_dataset_characteristics(df', NoTarget).value
    /\ UNCHANGED <<cleaner_vars, entry, llm_calls>>
    /\ UNCHANGED <<pc, target_column, eda_type, results, exception>>

ExtendNext == AppendRow \/ AppendColumn

ExtendSpec == ExtendInit /\ [][ExtendNext]_vars

\* C16: appending a row, or a column of a dtype already present, never
\* decreases the complexity_score of the frame's characteristics, also when
\* the appended cells change the missing percentage or the unique ratios.
C16_ScoreMonotonic ==
    [][characteristics'.complexity_score.num >= characteristics.complexity_score.num]_vars

(***************************************************************************)
(* The cleaning pipeline: python_backend/enhanced_data_cleaner.py          *)
(*                                                                         *)
(* A frame is [columns, dtypes, categories, data]: the column labels, the  *)
(* pandas dtype of each column ("number", "object", "category", "bool"),   *)
(* the categories of each categorical column and the rows, each a tuple of *)
(* cells.  A numeric cell holds [a, n, v], the float                       *)
(* a * sqrt(n / v): an input integer i is [8 * i, 1, 64], so that the      *)
(* quartile bounds of integer data (multiples of 1/8) and z-scores are     *)
(* exact.                                                                  *)
(***************************************************************************)
NaN == <<>>
isnull(cell) == Len(cell) = 0
Eighths(a) == <<[a |-> a, n |-> 1, v |-> 64]>>
Number(i) == Eighths(8 * i)
Text(chars) == <<chars>>

\* x >= k and x <= k for a numeric cell x and an integer k; False for NaN
cell_ge(cell, k) ==
    /\ ~isnull(cell)
    /\ LET x == cell[1]
           sq == x.a * x.a * x.n
       IN  IF k > 0 THEN x.a >= 0 /\ sq \div x.v >= k * k
           ELSE x.a >= 0 \/ sq \div x.v < k * k
                          \/ (sq % x.v = 0 /\ sq \div x.v = k * k)
cell_le(cell, k) ==
    /\ ~isnull(cell)
    /\ LET x == cell[1]
           sq == x.a * x.a * x.n
       IN  IF k < 0 THEN x.a <= 0 /\ sq \div x.v >= k * k
           ELSE x.a <= 0 \/ sq \div x.v < k * k
                          \/ (sq % x.v = 0 /\ sq \div x.v = k * k)

\* ord(c) up to a monotone renumbering: the place of c among the characters
\* the model's strings use, in the order of their code points
ord(c) ==
    LET CodePoints == <<" ", "-", ".">> \o <<"0","1","2","3","4","5","6","7","8","9">>
                      \o UpperCase \o <<"_">> \o LowerCase
    IN  CHOOSE i \in DOMAIN CodePoints : CodePoints[i] = c
\* python s < t for strings
str_lt(s, t) ==
    \E k \in 0..Min(Len(s), Len(t)) :
        /\ SubSeq(s, 1, k) = SubSeq(t, 1, k)
        /\ IF k = Len(s) THEN k < Len(t)
           ELSE k < Len(t) /\ ord(s[k + 1]) < ord(t[k + 1])

\* str.strip(): from the first to the last character that is not a blank
strip(s) ==
    LET kept == {i \in DOMAIN s : s[i] # " "}
    IN  IF kept = {} THEN <<>>
        ELSE SubSeq(s, CHOOSE i \in kept : \A k \in kept : i <= k,
                       CHOOSE i \in kept : \A k \in kept : i >= k)

\* the elements of s at the positions outside drop
WithoutIndices(s, drop) ==
    LET F[i \in 0..Len(s)] ==
            IF i = 0 THEN <<>>
            ELSE IF i \in drop THEN F[i - 1] ELSE Append(F[i - 1], s[i])
    IN  F[Len(s)]

len(f) == Len(f.data)
column(f, j) == [i \in 1..Len(f.data) |-> f.data[i][j]]
column_index(f, name) == CHOOSE j \in DOMAIN f.columns : f.columns[j] = name
isnull_count(cells) == Cardinality({i \in DOMAIN cells : isnull(cells[i])})
notna(cells) == SelectSeq(cells, LAMBDA c : ~isnull(c))
series_nunique(cells) == Cardinality({cells[i] : i \in DOMAIN cells} \ {NaN})
\* df.drop(columns=...)
drop_columns(f, drop) ==
    [ columns |-> WithoutIndices(f.columns, drop),
      dtypes |-> WithoutIndices(f.dtypes, drop),
      categories |-> WithoutIndices(f.categories, drop),
      data |-> [i \in DOMAIN f.data |-> WithoutIndices(f.data[i], drop)] ]
\* df[col] = cells
set_column(f, j, cells, dtype) ==
    [ f EXCEPT !.dtypes[j] = dtype,
               !.data = [i \in DOMAIN f.data |-> [f.data[i] EXCEPT ![j] = cells[i]]] ]
\* df[col] = df[col].astype('category'): the categories are the values held
astype_category(f, j) ==
    [ f EXCEPT !.dtypes[j] = "category",
               !.categories[j] = {f.data[i][j][1] :
                                     i \in {k \in DOMAIN f.data : ~isnull(f.data[k][j])}} ]
\* df[mask]
filter_rows(f, keep) == [f EXCEPT !.data = WithoutIndices(f.data, DOMAIN f.data \ keep)]

\* EnhancedDataCleaner.log_operation
log_operation(log, operation, rows_before, rows_after) ==
    Append(log, [ timestamp |-> "now",
                  operation |-> operation,
                  rows_before |-> rows_before,
                  rows_after |-> rows_after,
                  rows_changed |-> rows_before - rows_after ])

\* what a stage hands back: the frame, the log, and the exception it raised
Returned(f, log) == [df |-> f, log |-> log, exc |-> None]
Raised(f, log, exc) == [df |-> f, log |-> log, exc |-> exc]

\* EnhancedDataCleaner._handle_missing_data with missing_config {}:
\* column_missing_threshold 0.5, row_missing_threshold 0.7, no indicators,
\* no KNN.  The divisions are numpy's: 0/0 is nan, which compares False.
_handle_missing_data(f, log) ==
    LET \* lines 163-189 with imputation_strategy 'smart'.  The numeric cells of the
        \* frames of Init are missing only in rows that are missing entirely, which
        \* line 153 has dropped: the numeric branch (lines 168-179) has nothing to
        \* fill, and the frames hold no datetime column (lines 186-189).
        impute(g) ==
            LET \* Series.mode().iloc[0], the most frequent value, the smallest among ties;
                \* 'Unknown' when the column holds no value
                mode(cells) ==
                    LET vals == {cells[i][1] : i \in {k \in DOMAIN cells : ~isnull(cells[k])}}
                        freq(v) == Cardinality({i \in DOMAIN cells : cells[i] = <<v>>})
                    IN  IF vals = {} THEN <<"U","n","k","n","o","w","n">>
                        ELSE CHOOSE v \in vals :
                                \A w \in vals :
                                    freq(v) > freq(w) \/ (freq(v) = freq(w) /\ (v = w \/ str_lt(v, w)))
            IN
            LET F[j \in 0..Len(g.columns)] ==
                    IF j = 0 THEN g
                    ELSE IF /\ isnull_count(column(F[j - 1], j)) > 0
                            /\ g.dtypes[j] \in {"object", "category"}
                         THEN LET cells == column(F[j - 1], j)
                                  fill == Text(mode(cells))
                              IN  set_column(F[j - 1], j,
                                      [i \in DOMAIN cells |->
                                          IF isnull(cells[i]) THEN fill ELSE cells[i]],
                                      g.dtypes[j])
                         ELSE F[j - 1]
            IN  F[Len(g.columns)]
    IN
    LET rows_before == len(f)
        cols_to_drop == {j \in DOMAIN f.columns :
                            len(f) > 0 /\ 2 * isnull_count(column(f, j)) > len(f)}
        f1 == drop_columns(f, cols_to_drop)
        log1 == IF cols_to_drop # {}
                THEN log_operation(log, "remove_missing_columns", rows_before, len(f1))
                ELSE log
        rows_to_keep == {i \in DOMAIN f1.data :
                            /\ Len(f1.columns) > 0
                            /\ 10 * isnull_count(f1.data[i]) <= 7 * Len(f1.columns)}
        f2 == filter_rows(f1, rows_to_keep)
        rows_removed == rows_before - len(f2)
        log2 == IF rows_removed > 0
                THEN log_operation(log1, "remove_missing_rows", rows_before, len(f2))
                ELSE log1
    IN  Returned(impute(f2), log2)

\* \d of the regular expressions
is_digit(c) == c \in {"0","1","2","3","4","5","6","7","8","9"}
\* Series.astype(str) of one cell
astype_str(cell) == IF isnull(cell) THEN <<"n","a","n">> ELSE cell[1]

\* a to_numeric that coerces every cell to NaN
to_numeric_all_nan(cell) == NaN

\* lines 214-218 for one cell: strip, drop every character outside [0-9.-],
\* to_numeric with errors='coerce'.  The strings of the model hold no '.',
\* and '-' between digits only (dates): what is left parses when it is a
\* run of digits.
to_numeric(cell) ==
    LET RECURSIVE digits_value(_)
        digits_value(ds) ==
            IF ds = <<>> THEN 0
            ELSE 10 * digits_value(SubSeq(ds, 1, Len(ds) - 1))
                 + (ord(ds[Len(ds)]) - ord("0"))
        in_class(c) == is_digit(c) \/ c \in {".", "-"}
        kept == SelectSeq(strip(astype_str(cell)), in_class)
    IN  IF kept # <<>> /\ \A i \in DOMAIN kept : is_digit(kept[i])
        THEN Number(digits_value(kept)) ELSE NaN

\* EnhancedDataCleaner._correct_data_types.  Line 237 divides two python
\* ints: ZeroDivisionError for an object column of a frame without rows;
\* the divisions of lines 220 and 230 are numpy's (nan, compares False).
\* Line 228, pd.to_datetime(errors='coerce'): of the strings of the model
\* (words, runs of fewer than four digits, ISO dates yyyy-mm-dd) it reads
\* the ISO dates and turns the others, and NaN, into NaT.
_correct_data_types(f, log) ==
    LET to_datetime(cell) ==
            IF /\ ~isnull(cell)
               /\ Len(cell[1]) = 10
               /\ \A i \in 1..10 : IF i \in {5, 8} THEN cell[1][i] = "-"
                                    ELSE is_digit(cell[1][i])
            THEN cell ELSE NaN
    IN
    LET F[j \in 0..Len(f.columns)] ==
            IF j = 0 THEN Returned(f, log)
            ELSE LET prev == F[j - 1]
                     cells == column(prev.df, j)
                     n_numeric == Len(notna([i \in DOMAIN cells |-> to_numeric(cells[i])]))
                     n_datetime == Len(notna([i \in DOMAIN cells |-> to_datetime(cells[i])]))
                 IN  IF prev.exc # None \/ f.dtypes[j] # "object" THEN prev
                     ELSE IF len(f) > 0 /\ 10 * n_numeric > 8 * len(f)
                     THEN Returned(set_column(prev.df, j,
                              [i \in DOMAIN cells |-> to_numeric(cells[i])], "number"), log)
                     ELSE IF len(f) > 0 /\ 10 * n_datetime > 5 * len(f)
                     THEN Returned(set_column(prev.df, j,
                              [i \in DOMAIN cells |-> to_datetime(cells[i])], "datetime64"), log)
                     ELSE IF len(f) = 0 THEN Raised(prev.df, log, ZeroDivisionError)
                     ELSE IF 10 * series_nunique(cells) < len(f) \/ series_nunique(cells) < 20
                     THEN Returned(astype_category(prev.df, j), log)
                     ELSE prev
    IN  F[Len(f.columns)]

\* EnhancedDataCleaner._remove_duplicates
_remove_duplicates(f, fuzzy_matching, log) ==
    LET \* DataFrame.drop_duplicates(): the first of equal rows stays (NaN equals NaN)
        drop_duplicates(g) ==
            filter_rows(g, {i \in DOMAIN g.data : \A k \in 1..(i - 1) : g.data[k] # g.data[i]})
    IN
    LET \* lines 259-263: df[col].str.lower().str.strip() on the object columns
        fuzzy_normalise(g) ==
            [g EXCEPT !.data =
                [i \in DOMAIN g.data |->
                    [j \in DOMAIN g.columns |->
                        IF g.dtypes[j] = "object" /\ ~isnull(g.data[i][j])
                        THEN Text(strip(Lower(g.data[i][j][1])))
                        ELSE g.data[i][j]]]]
    IN
    LET rows_before == len(f)
        f1 == drop_duplicates(f)
        exact_dupes_removed == rows_before - len(f1)
        log1 == IF exact_dupes_removed > 0
                THEN log_operation(log, "remove_exact_duplicates", rows_before, len(f1))
                ELSE log
    IN  Returned(IF fuzzy_matching THEN fuzzy_normalise(f1) ELSE f1, log1)

\* Series.quantile(k/4) of integer data, linear interpolation at position
\* (n - 1) * k / 4 of the sorted values; in units of 1/32 (the values are in
\* eighths).  vals is not empty.
quantile(vals, k) ==
    LET sorted == SortSeq(vals, LAMBDA x, y : x < y)
        pos == (Len(vals) - 1) * k
        lo == pos \div 4 + 1
        frac == pos % 4
    IN  IF frac = 0 THEN 4 * sorted[lo]
        ELSE 4 * sorted[lo] + frac * (sorted[lo + 1] - sorted[lo])

\* iqr_bounds capping at the quartiles themselves
iqr_bounds_at_quartiles(vals) ==
    [lower |-> quantile(vals, 1) \div 4, upper |-> quantile(vals, 3) \div 4]

\* lines 276-280: [lower_bound, upper_bound] in eighths
iqr_bounds(vals) ==
    LET Q1 == quantile(vals, 1)
        Q3 == quantile(vals, 3)
        IQR == Q3 - Q1
    IN  [lower |-> (2 * Q1 - 3 * IQR) \div 8, upper |-> (2 * Q3 + 3 * IQR) \div 8]

\* EnhancedDataCleaner._handle_outliers with method 'iqr'
_handle_outliers(f, action, log) ==
    LET \* lines 274-302 for one numeric column j, method 'iqr'
        handle_outliers_column(prev, j, act) ==
            LET g == prev.df
                cells == column(g, j)
                vals == [i \in DOMAIN notna(cells) |-> notna(cells)[i][1].a]
                bounds == iqr_bounds(vals)
                outliers_mask == {i \in DOMAIN cells :
                                    /\ ~isnull(cells[i])
                                    /\ \/ cells[i][1].a < bounds.lower
                                       \/ cells[i][1].a > bounds.upper}
                capped == [i \in DOMAIN cells |->
                              IF isnull(cells[i]) THEN cells[i]
                              ELSE IF cells[i][1].a < bounds.lower THEN Eighths(bounds.lower)
                              ELSE IF cells[i][1].a > bounds.upper THEN Eighths(bounds.upper)
                              ELSE cells[i]]
                g1 == IF act = "remove" THEN filter_rows(g, DOMAIN g.data \ outliers_mask)
                      ELSE IF act = "cap" THEN set_column(g, j, capped, "number")
                      ELSE g
            IN  IF vals = <<>> \/ outliers_mask = {} THEN prev
                ELSE Returned(g1, log_operation(prev.log,
                         IF act = "remove" THEN "handle_outliers_remove"
                         ELSE IF act = "cap" THEN "handle_outliers_cap"
                         ELSE "handle_outliers_keep",
                         len(g1), len(g1)))
    IN
    LET F[j \in 0..Len(f.columns)] ==
            IF j = 0 THEN Returned(f, log)
            ELSE IF f.dtypes[j] = "number" THEN handle_outliers_column(F[j - 1], j, action)
            ELSE F[j - 1]
    IN  F[Len(f.columns)]

ValueError == "ValueError"

\* EnhancedDataCleaner._standardize_normalize with scaling_config {}: method
\* 'standard'.  sklearn's input validation raises ValueError for a frame
\* without rows.
_standardize_normalize(f, log) ==
    LET \* StandardScaler().fit_transform of one column: (x - mean) / std with the
        \* population std, 0 for a constant column, NaN kept.  With D = N x - sum x
        \* and V = sum D^2 the z-score of x is D * sqrt(N / V).
        standard_scale(cells) ==
            LET vals == notna(cells)
                N == Len(vals)
                total == SeqSum([i \in DOMAIN vals |-> vals[i][1].a])
                D(cell) == N * cell[1].a - total
                V == SeqSum([i \in DOMAIN vals |-> D(vals[i]) * D(vals[i])])
            IN  [i \in DOMAIN cells |->
                    IF isnull(cells[i]) THEN NaN
                    ELSE IF D(cells[i]) = 0 THEN Eighths(0)
                    ELSE <<[a |-> D(cells[i]), n |-> N, v |-> V]>>]
    IN
    LET numeric == {j \in DOMAIN f.columns : f.dtypes[j] = "number"}
        scaled == [f EXCEPT !.data =
                      [i \in DOMAIN f.data |->
                          [j \in DOMAIN f.columns |->
                              IF j \in numeric THEN standard_scale(column(f, j))[i]
                              ELSE f.data[i][j]]]]
    IN  IF numeric = {} THEN Returned(f, log)
        ELSE IF len(f) = 0 THEN Raised(f, log, ValueError)
        ELSE Returned(scaled, log_operation(log, "scale_standard", len(f), len(f)))

\* EnhancedDataCleaner._clean_text_data with text_config {}: astype(str),
\* strip, lower, whitespace collapsed, value standardisation
_clean_text_data(f, log) ==
    LET \* re.sub(r'\s+', ' ', s)
        RECURSIVE collapse_spaces(_)
        collapse_spaces(s) ==
            IF s = <<>> THEN s
            ELSE IF Head(s) = " " /\ Len(s) > 1 /\ s[2] = " " THEN collapse_spaces(Tail(s))
            ELSE <<Head(s)>> \o collapse_spaces(Tail(s))
    IN
    LET \* lines 420-433, common_replacements applied in order to one word of a
        \* lower-cased string (every pattern is a list of \b-delimited words; the
        \* patterns of several words, and 'email', replace a text by itself; the
        \* strings of the model hold no '-', so 'e-mail' does not occur)
        standardize_word(w) ==
            IF w \in {<<"y","e","s">>, <<"y">>, <<"t","r","u","e">>, <<"1">>} THEN <<"y","e","s">>
            ELSE IF w \in {<<"n","o">>, <<"n">>, <<"f","a","l","s","e">>, <<"0">>} THEN <<"n","o">>
            ELSE IF w \in {<<"m","a","l","e">>, <<"m">>} THEN <<"m","a","l","e">>
            ELSE IF w \in {<<"f","e","m","a","l","e">>, <<"f">>} THEN <<"f","e","m","a","l","e">>
            ELSE IF w \in {<<"u","s","a">>, <<"u","s">>}
                 THEN <<"u","n","i","t","e","d">> \o <<" ">> \o <<"s","t","a","t","e","s">>
            ELSE IF w \in {<<"u","k">>, <<"b","r","i","t","a","i","n">>}
                 THEN <<"u","n","i","t","e","d">> \o <<" ">> \o <<"k","i","n","g","d","o","m">>
            ELSE IF w \in {<<"p","h","o","n","e">>, <<"t","e","l","e","p","h","o","n","e">>,
                           <<"t","e","l">>, <<"m","o","b","i","l","e">>} THEN <<"p","h","o","n","e">>
            ELSE w
    IN
    LET \* the replacements over a string: each maximal run of word characters (\w:
        \* the digits, the letters and '_')
        RECURSIVE standardize_values(_, _)
        standardize_values(word, rest) ==
            IF rest = <<>> THEN standardize_word(word)
            ELSE IF ord(Head(rest)) >= ord("0") THEN standardize_values(Append(word, Head(rest)), Tail(rest))
            ELSE standardize_word(word) \o <<Head(rest)>> \o standardize_values(<<>>, Tail(rest))
    IN
    Returned([f EXCEPT !.data =
        [i \in DOMAIN f.data |->
            [j \in DOMAIN f.columns |->
                IF f.dtypes[j] = "object"
                THEN Text(standardize_values(<<>>,
                         collapse_spaces(Lower(strip(astype_str(f.data[i][j]))))))
                ELSE f.data[i][j]]]], log)

\* _get_default_config()['validation_config']['domain_constraints']
DefaultConstraints ==
    << [col |-> <<"a","g","e">>, has_min |-> TRUE, min |-> 0, has_max |-> TRUE, max |-> 120],
       [col |-> <<"p","r","i","c","e">>, has_min |-> TRUE, min |-> 0, has_max |-> FALSE, max |-> 0] >>

\* EnhancedDataCleaner._validate_data_integrity.  A datetime cell holds the
\* day as a number; NaT is NaN and compares False.
_validate_data_integrity(f, fix_date_logic, constraints, log) ==
    LET \* lines 464-468: the datetime columns, in column order
        indices == [j \in DOMAIN f.columns |-> j]
        is_date(j) == f.dtypes[j] = "datetime64"
        is_start(j) == is_date(j) /\ Contains(Lower(f.columns[j]), <<"s","t","a","r","t">>)
        is_end(j) == is_date(j) /\ Contains(Lower(f.columns[j]), <<"e","n","d">>)
        date_cols == SelectSeq(indices, is_date)
        start_cols == SelectSeq(indices, is_start)
        end_cols == SelectSeq(indices, is_end)
        \* lines 473-477 for one pair: the rows with start > end get the two
        \* values exchanged
        fix_pair(g, s, e) ==
            LET invalid_dates ==
                    {i \in DOMAIN g.data :
                        /\ ~isnull(g.data[i][s]) /\ ~isnull(g.data[i][e])
                        /\ g.data[i][s][1].a > g.data[i][e][1].a}
            IN  IF invalid_dates # {} /\ fix_date_logic
                THEN [g EXCEPT !.data =
                        [i \in DOMAIN g.data |->
                            IF i \in invalid_dates
                            THEN [g.data[i] EXCEPT ![s] = g.data[i][e], ![e] = g.data[i][s]]
                            ELSE g.data[i]]]
                ELSE g
        \* lines 470-471: for start_col in start_cols: for end_col in end_cols
        n_pairs == IF Len(date_cols) >= 2 THEN Len(start_cols) * Len(end_cols) ELSE 0
        D[k \in 0..n_pairs] ==
            IF k = 0 THEN f
            ELSE fix_pair(D[k - 1], start_cols[((k - 1) \div Len(end_cols)) + 1],
                          end_cols[((k - 1) % Len(end_cols)) + 1])
        dated == D[n_pairs]
    IN
    LET \* lines 482-486 for one constraint
        apply_constraint(g, c) ==
            IF ~(\E j \in DOMAIN g.columns : g.columns[j] = c.col) THEN g
            ELSE LET j == column_index(g, c.col)
                     f1 == IF c.has_min
                           THEN filter_rows(g, {i \in DOMAIN g.data : cell_ge(g.data[i][j], c.min)})
                           ELSE g
                 IN  IF c.has_max
                     THEN filter_rows(f1, {i \in DOMAIN f1.data : cell_le(f1.data[i][j], c.max)})
                     ELSE f1
    IN
    LET F[k \in 0..Len(constraints)] ==
            IF k = 0 THEN dated ELSE apply_constraint(F[k - 1], constraints[k])
    IN  Returned(F[Len(constraints)], log)


\* EnhancedDataCleaner._fix_inconsistent_formats: the object columns named
\* like a phone number keep their digits, those named like an e-mail are
\* lower-cased and stripped, those named like an amount keep [0-9.-] and
\* are made numeric
_fix_inconsistent_formats(f, log) ==
    LET F[j \in 0..Len(f.columns)] ==
            IF j = 0 THEN f
            ELSE LET col_lower == Lower(f.columns[j])
                     cells == column(F[j - 1], j)
                 IN  IF f.dtypes[j] # "object" THEN F[j - 1]
                     ELSE IF \E kw \in {<<"p","h","o","n","e">>, <<"t","e","l">>, <<"m","o","b","i","l","e">>} : Contains(col_lower, kw)
                     THEN set_column(F[j - 1], j,
                              [i \in DOMAIN cells |->
                                  IF isnull(cells[i]) THEN NaN
                                  ELSE Text(SelectSeq(cells[i][1], is_digit))], "object")
                     ELSE IF Contains(col_lower, <<"e","m","a","i","l">>)
                     THEN set_column(F[j - 1], j,
                              [i \in DOMAIN cells |->
                                  IF isnull(cells[i]) THEN NaN
                                  ELSE Text(strip(Lower(cells[i][1])))], "object")
                     ELSE IF \E kw \in { <<"p","r","i","c","e">>, <<"c","o","s","t">>, <<"a","m","o","u","n","t">>, <<"s","a","l","a","r","y">> } :
                             Contains(col_lower, kw)
                     THEN set_column(F[j - 1], j,
                              [i \in DOMAIN cells |->
                                  IF isnull(cells[i]) THEN NaN ELSE to_numeric(cells[i])],
                              "number")
                     ELSE F[j - 1]
    IN  Returned(F[Len(f.columns)], log)

\* EnhancedDataCleaner._encode_categorical with encoding_config {}: method
\* 'onehot', max_categories_onehot 10
_encode_categorical(f, log) ==
    LET \* lines 521-525 for one column: pd.get_dummies(df[col], prefix=col) has one
        \* bool column per category (per value held, for an object column), named
        \* col_value, in ascending order; they follow the other columns of the
        \* frame, which loses col
        onehot_column(g, name) ==
            LET j == column_index(g, name)
                cells == column(g, j)
                values == IF g.dtypes[j] = "category" THEN g.categories[j]
                          ELSE {cells[i][1] : i \in {k \in DOMAIN cells : ~isnull(cells[k])}}
                order == SortSeq(CHOOSE q \in [1..Cardinality(values) -> values] :
                                     \A v \in values : \E i \in DOMAIN q : q[i] = v, str_lt)
                rest == drop_columns(g, {j})
            IN  IF series_nunique(cells) > 10 THEN g
                ELSE [ columns |-> rest.columns \o [k \in DOMAIN order |-> name \o <<"_">> \o order[k]],
                       dtypes |-> rest.dtypes \o [k \in DOMAIN order |-> "bool"],
                       categories |-> rest.categories \o [k \in DOMAIN order |-> {}],
                       data |-> [i \in DOMAIN g.data |->
                                    rest.data[i] \o [k \in DOMAIN order |-> <<cells[i] = <<order[k]>> >>]] ]
    IN
    LET encoded_cols == SelectSeq(f.columns,
            LAMBDA c : f.dtypes[column_index(f, c)] \in {"object", "category"})
        F[k \in 0..Len(encoded_cols)] ==
            IF k = 0 THEN f ELSE onehot_column(F[k - 1], encoded_cols[k])
    IN  Returned(F[Len(encoded_cols)],
                 log_operation(log, "encode_onehot", len(f), len(f)))

\* EnhancedDataCleaner._create_bins with binning_config {}: no rule
_create_bins(f, log) == Returned(f, log)

\* EnhancedDataCleaner._feature_engineering with feature_config {}: date
\* features of the datetime columns, of which the frames have none; no text
\* features
_feature_engineering(f, log) == Returned(f, log)

\* EnhancedDataCleaner._aggregate_transform with aggregation_config {}: no rule
_aggregate_transform(f, log) == Returned(f, log)

\* EnhancedDataCleaner._clean_geospatial
_clean_geospatial(f, log) ==
    LET \* lines 606 and 612 for one column: the rows inside [-limit, limit]
        clamp_column(g, name, limit) ==
            LET j == column_index(g, name)
            IN  filter_rows(g, {i \in DOMAIN g.data :
                    cell_ge(g.data[i][j], 0 - limit) /\ cell_le(g.data[i][j], limit)})
        lat_cols == SelectSeq(f.columns, LAMBDA c : Contains(Lower(c), <<"l","a","t">>))
        lon_cols == SelectSeq(f.columns,
                        LAMBDA c : Contains(Lower(c), <<"l","o","n">>) \/ Contains(Lower(c), <<"l","n","g">>))
        A[k \in 0..Len(lat_cols)] ==
            IF k = 0 THEN f ELSE clamp_column(A[k - 1], lat_cols[k], 90)
        B[k \in 0..Len(lon_cols)] ==
            IF k = 0 THEN A[Len(lat_cols)] ELSE clamp_column(B[k - 1], lon_cols[k], 180)
    IN  Returned(B[Len(lon_cols)], log)

\* EnhancedDataCleaner._handle_unit_conversions with unit_conversion_config
\* {} or the default {'auto_detect_units': False}: no rule, no detection
_handle_unit_conversions(f, log) == Returned(f, log)

(***************************************************************************)
(* The config of comprehensive_clean.  present holds the stage flags the   *)
(* mapping has, enabled those among them that are True; the options of the *)
(* nested mappings are "absent" when the mapping or the key is missing.    *)
(***************************************************************************)
Flags ==
    <<"handle_missing", "correct_types", "remove_duplicates", "handle_outliers",
      "standardize", "clean_text", "validate_integrity", "fix_formats",
      "encode_categorical", "create_bins", "feature_engineering",
      "aggregate_transform", "clean_geospatial", "handle_unit_conversions">>
FlagSet == {Flags[i] : i \in DOMAIN Flags}

Config(present, enabled, action, fuzzy, constraints) ==
    [ is_none |-> FALSE, present |-> present, enabled |-> enabled,
      outlier_action |-> action, fuzzy_matching |-> fuzzy,
      fix_date_logic |-> "absent", domain_constraints |-> constraints ]

\* config=None
ConfigNone ==
    [ is_none |-> TRUE, present |-> {}, enabled |-> {},
      outlier_action |-> "absent", fuzzy_matching |-> "absent",
      fix_date_logic |-> "absent", domain_constraints |-> <<>> ]

\* a get that answers True for every absent flag
config_get_absent_is_true(cfg, flag, default) ==
    IF flag \in cfg.present THEN flag \in cfg.enabled ELSE TRUE

\* config.get(flag, default)
config_get(cfg, flag, default) ==
    IF flag \in cfg.present THEN flag \in cfg.enabled ELSE default

\* config.get('outlier_config', {}).get('action', 'cap')
outlier_action(cfg) ==
    IF cfg.outlier_action = "absent" THEN "cap" ELSE cfg.outlier_action

\* config.get('duplicate_config', {}).get('fuzzy_matching', False)
fuzzy_matching(cfg) == cfg.fuzzy_matching = "True"

\* config.get('validation_config', {}).get('fix_date_logic', True)
fix_date_logic(cfg) == cfg.fix_date_logic # "False"

(***************************************************************************)
(* StageSpec: one stage applied to a frame, as comprehensive_clean calls   *)
(* it: _remove_duplicates, then again on its own output, or                *)
(* _handle_outliers.                                                       *)
(***************************************************************************)
MaxValues == 5       \* rows of the numeric frames
MaxNames == 3        \* rows of the text frames
MaxCodes == 5        \* rows of the frames of strings to be typed


\* the frames of one column: a numeric one for _handle_outliers, with its
\* action; a text one for _remove_duplicates, with its fuzzy_matching; one
\* of numerals, words and dates for _correct_data_types
StageInputs ==
    LET OutlierValues == {NaN, Number(1), Number(2), Number(3), Number(4), Number(100)}
        NameValues == {NaN, Text(<<"x">>), Text(<<"X">>), Text(<<" ","x">>)}
        CodeValues == {Text(<<"7">>), Text(<<"x">>),
                       Text(<<"2","0","2","0","-","0","1","-","0","5">>)}
        Series(name, dtype, cells) ==
            [ columns |-> <<name>>, dtypes |-> <<dtype>>, categories |-> <<{}>>,
              data |-> [i \in DOMAIN cells |-> <<cells[i]>>] ]
    IN  {[df |-> Series(<<"v","a","l","u","e">>, "number", cells),
          config |-> Config({}, {}, a, "absent", <<>>)] :
            cells \in UNION {[1..n -> OutlierValues] : n \in 0..MaxValues},
            a \in {"cap", "remove"}}
        \cup {[df |-> Series(<<"n","a","m","e">>, "object", cells),
               config |-> Config({}, {}, "absent", z, <<>>)] :
            cells \in UNION {[1..n -> NameValues] : n \in 0..MaxNames},
            z \in {"absent", "True", "False"}}
        \cup {[df |-> Series(<<"c","o","d","e">>, "object", cells),
               config |-> Config({}, {}, "absent", "absent", <<>>)] :
            cells \in UNION {[1..n -> CodeValues] : n \in 1..MaxCodes}}

StageInit ==
    /\ pc = "stage_input"
    /\ \E inp \in StageInputs : df = inp.df /\ config = inp.config /\ cleaned_df = inp.df
    /\ cleaning_log = <<>>
    /\ stages_run = <<>>
    /\ entry = None
    /\ llm_calls = <<>>
    /\ target_column = NoTarget
    /\ characteristics = None
    /\ eda_type = None
    /\ results = None
    /\ exception = None

StageRemoveDuplicates ==
    /\ pc = "stage_input"
    /\ LET r == _remove_duplicates(cleaned_df, fuzzy_matching(config), cleaning_log)
       IN  cleaned_df' = r.df /\ cleaning_log' = r.log
    /\ pc' = "dedup_once"
    /\ stages_run' = Append(stages_run, 3)
    /\ UNCHANGED <<llm_calls, entry, df, config, target_column, characteristics, eda_type, results, exception>>

StageRemoveDuplicatesAgain ==
    /\ pc = "dedup_once"
    /\ LET r == _remove_duplicates(cleaned_df, fuzzy_matching(config), cleaning_log)
       IN  cleaned_df' = r.df /\ cleaning_log' = r.log
    /\ pc' = "dedup_twice"
    /\ stages_run' = Append(stages_run, 3)
    /\ UNCHANGED <<llm_calls, entry, df, config, target_column, characteristics, eda_type, results, exception>>

StageHandleOutliers ==
    /\ pc = "stage_input"
    /\ LET r == _handle_outliers(cleaned_df, outlier_action(config), cleaning_log)
       IN  cleaned_df' = r.df /\ cleaning_log' = r.log
    /\ pc' = "outliers_done"
    /\ stages_run' = Append(stages_run, 4)
    /\ UNCHANGED <<llm_calls, entry, df, config, target_column, characteristics, eda_type, results, exception>>

StageCorrectTypes ==
    /\ pc = "stage_input"
    /\ LET r == _correct_data_types(cleaned_df, cleaning_log)
       IN  cleaned_df' = r.df /\ cleaning_log' = r.log /\ exception' = r.exc
    /\ pc' = "types_done"
    /\ stages_run' = Append(stages_run, 2)
    /\ UNCHANGED <<llm_calls, entry, df, config, target_column, characteristics, eda_type, results>>

StageNext ==
    \/ StageRemoveDuplicates
    \/ StageRemoveDuplicatesAgain
    \/ StageHandleOutliers
    \/ StageCorrectTypes

StageSpec == StageInit /\ [][StageNext]_vars

\* the cells of the column of a one-column frame that are numerals
numerals(f) ==
    {i \in DOMAIN f.data :
        /\ f.data[i][1] # NaN
        /\ \A k \in DOMAIN f.data[i][1][1] : is_digit(f.data[i][1][1][k])}

\* the cells of the column of a one-column frame that hold a '-': its dates
dates(f) ==
    {i \in DOMAIN f.data :
        /\ f.data[i][1] # NaN
        /\ \E k \in DOMAIN f.data[i][1][1] : f.data[i][1][1][k] = "-"}

\* C20 as stated: an object column becomes numeric when at least 80% of its
\* rows are numerals, else datetime when at least 50% of its rows are
\* dates, else categorical (fewer than 20 distinct values).
C20_AtLeastThresholds ==
    (pc = "types_done" /\ df.dtypes[1] = "object" /\ len(df) > 0)
        => cleaned_df.dtypes[1] =
               IF 10 * Cardinality(numerals(df)) >= 8 * len(df) THEN "number"
               ELSE IF 10 * Cardinality(dates(df)) >= 5 * len(df) THEN "datetime64"
               ELSE "category"

\* C20: an object column becomes numeric when more than 80% of its rows are
\* numerals, else datetime when more than 50% of its rows are dates, else
\* categorical when it has fewer than 20 distinct values; a column with
\* exactly 80% numerals or exactly 50% dates is not converted by that rule;
\* a numeric column is left as it is.
C20_StrictThresholds ==
    /\ (pc = "types_done" /\ df.dtypes[1] = "object" /\ len(df) > 0)
          => cleaned_df.dtypes[1] =
                 IF 10 * Cardinality(numerals(df)) > 8 * len(df) THEN "number"
                 ELSE IF 10 * Cardinality(dates(df)) > 5 * len(df) THEN "datetime64"
                 ELSE "category"
    /\ (pc = "types_done" /\ df.dtypes[1] = "number") => cleaned_df = df

\* a column of five rows, four of them numerals, has been made categorical
C20_Witness ==
    /\ pc = "types_done"
    /\ df.dtypes[1] = "object"
    /\ len(df) = 5
    /\ Cardinality(numerals(df)) = 4
    /\ cleaned_df.dtypes[1] = "category"

\* C7: _remove_duplicates applied to its own output removes no row and
\* appends no log entry, with fuzzy_matching too.
C7_DedupIdempotent ==
    [][ (pc = "dedup_once" /\ pc' = "dedup_twice")
            => (len(cleaned_df') = len(cleaned_df) /\ cleaning_log' = cleaning_log) ]_vars

\* C8: after _handle_outliers with method 'iqr' and action 'cap' no row is
\* removed and every value equals the original value clamped to
\* [Q1 - 1.5 IQR, Q3 + 1.5 IQR], Q1 and Q3 the linearly interpolated
\* quartiles of the column before capping.  (x the originals in eighths;
\* quartiles in 1/32, bounds in 1/64.)
C8_CapClampsToIQRBounds ==
    (pc = "outliers_done" /\ outlier_action(config) = "cap") =>
        /\ len(cleaned_df) = len(df)
        /\ \A j \in {k \in DOMAIN df.columns : df.dtypes[k] = "number"} :
            LET before == column(df, j)
                after == column(cleaned_df, j)
                present == {i \in DOMAIN before : before[i] # NaN}
                n == Cardinality(present)
                x(i) == before[i][1].a
                \* the k-th smallest original value
                kth(k) == CHOOSE v \in {x(i) : i \in present} :
                             /\ Cardinality({i \in present : x(i) < v}) < k
                             /\ Cardinality({i \in present : x(i) <= v}) >= k
                quartile(q) ==
                    LET h == (n - 1) * q
                    IN  IF h % 4 = 0 THEN 4 * kth(h \div 4 + 1)
                        ELSE (4 - (h % 4)) * kth(h \div 4 + 1)
                             + (h % 4) * kth(h \div 4 + 2)
                lower64 == 5 * quartile(1) - 3 * quartile(3)
                upper64 == 5 * quartile(3) - 3 * quartile(1)
            IN  \A i \in DOMAIN before :
                  IF before[i] = NaN THEN after[i] = NaN
                  ELSE /\ after[i] # NaN
                       /\ 8 * after[i][1].a = Max(lower64, Min(upper64, 8 * x(i)))
                       /\ after[i][1].n = 1 /\ after[i][1].v = 64

\* [1, 2, 3, 4, 100] has become [1, 2, 3, 4, 7]
C8_Witness ==
    /\ pc = "outliers_done"
    /\ outlier_action(config) = "cap"
    /\ df.dtypes = <<"number">>
    /\ column(df, 1) = <<Number(1), Number(2), Number(3), Number(4), Number(100)>>
    /\ column(cleaned_df, 1) = <<Number(1), Number(2), Number(3), Number(4), Number(7)>>

(***************************************************************************)
(* CleanSpec: one run of comprehensive_clean, a stage at a time.  pc names *)
(* the flag of the stage the run is about to consider.                     *)
(***************************************************************************)
MaxRows == 4         \* rows of the frames of CleanSpec


\* EnhancedDataCleaner._get_default_config
_get_default_config ==
    [ Config(FlagSet,
             {"handle_missing", "correct_types", "remove_duplicates", "handle_outliers",
              "clean_text", "validate_integrity", "fix_formats"},
             "cap", "absent", DefaultConstraints)
      EXCEPT !.fix_date_logic = "True" ]

\* the frames: columns age, lat and name, rows out of six
CleanFrames ==
    LET Rows == << <<Number(1), Number(10), Text(<<"x">>)>>,
                   <<Number(1), Number(10), Text(<<"X"," ">>)>>,
                   <<Number(121), Number(10), Text(<<"x">>)>>,
                   <<Number(1), Number(95), Text(<<"x">>)>>,
                   <<NaN, NaN, NaN>>,
                   <<Number(2), Number(10), NaN>> >>
    IN  {[ columns |-> <<<<"a","g","e">>, <<"l","a","t">>, <<"n","a","m","e">>>>,
           dtypes |-> <<"number", "number", "object">>,
           categories |-> <<{}, {}, {}>>,
           data |-> [i \in DOMAIN pick |-> Rows[pick[i]]] ] :
            pick \in {q \in UNION {[1..n -> 1..6] : n \in 0..MaxRows} :
                         \A i \in 1..(Len(q) - 1) : q[i] <= q[i + 1]}}

\* config: None, {}, one flag set either way, or every flag set the same
\* way; without sub-configs, or with outlier_config {'action': 'remove'},
\* duplicate_config {'fuzzy_matching': True} and the domain constraints of
\* the default config as validation_config
CleanConfigs ==
    {ConfigNone}
    \cup {Config(present, enabled, o[1], o[2], o[3]) :
            present \in {{}}, enabled \in {{}},
            o \in {<<"absent", "absent", <<>> >>, <<"remove", "True", DefaultConstraints>>}}
    \cup UNION {{Config({flag}, enabled, o[1], o[2], o[3]) :
                    enabled \in {{}, {flag}},
                    o \in {<<"absent", "absent", <<>> >>,
                           <<"remove", "True", DefaultConstraints>>}} : flag \in FlagSet}
    \cup {Config(FlagSet, enabled, o[1], o[2], o[3]) :
            enabled \in {{}, FlagSet},
            o \in {<<"absent", "absent", <<>> >>, <<"remove", "True", DefaultConstraints>>}}

NoFrame == [columns |-> <<>>, dtypes |-> <<>>, categories |-> <<>>, data |-> <<>>]

\* EnhancedDataCleaner.__init__, and the arguments of comprehensive_clean
CleanInit ==
    /\ pc = "clean_start"
    /\ df \in CleanFrames
    /\ config \in CleanConfigs
    /\ cleaned_df = NoFrame
    /\ cleaning_log = <<>>
    /\ stages_run = <<>>
    /\ entry = None
    /\ llm_calls = <<>>
    /\ target_column = NoTarget
    /\ characteristics = None
    /\ eda_type = None
    /\ results = None
    /\ exception = None

\* lines 47-51
BeginClean ==
    /\ pc = "clean_start"
    /\ config' = IF config.is_none THEN _get_default_config ELSE config
    /\ cleaned_df' = df
    /\ pc' = Flags[1]
    /\ UNCHANGED <<llm_calls, entry, df, cleaning_log, stages_run, target_column, characteristics,
                   eda_type, results, exception>>

\* "if config.get(flag, default): cleaned_df = stage(cleaned_df, ...)" for
\* stage k, r what the stage hands back; an exception of the stage leaves
\* comprehensive_clean
Step(k, default, r) ==
    /\ pc = Flags[k]
    /\ LET after == IF k < Len(Flags) THEN Flags[k + 1] ELSE "summary" IN
       IF config_get(config, Flags[k], default)
       THEN /\ stages_run' = Append(stages_run, k)
            /\ cleaning_log' = r.log
            /\ exception' = r.exc
            /\ cleaned_df' = IF r.exc = None THEN r.df ELSE cleaned_df
            /\ pc' = IF r.exc = None THEN after ELSE "raised"
       ELSE /\ pc' = after
            /\ UNCHANGED <<stages_run, cleaning_log, exception, cleaned_df>>
    /\ UNCHANGED <<llm_calls, entry, df, config, target_column, characteristics, eda_type, results>>

HandleMissing == Step(1, TRUE, _handle_missing_data(cleaned_df, cleaning_log))
CorrectTypes == Step(2, TRUE, _correct_data_types(cleaned_df, cleaning_log))
RemoveDuplicates ==
    Step(3, TRUE, _remove_duplicates(cleaned_df, fuzzy_matching(config), cleaning_log))
HandleOutliers ==
    Step(4, TRUE, _handle_outliers(cleaned_df, outlier_action(config), cleaning_log))
Standardize == Step(5, FALSE, _standardize_normalize(cleaned_df, cleaning_log))
CleanText == Step(6, TRUE, _clean_text_data(cleaned_df, cleaning_log))
ValidateIntegrity ==
    Step(7, TRUE, _validate_data_integrity(cleaned_df, fix_date_logic(config), config.domain_constraints,
                                           cleaning_log))
FixFormats == Step(8, TRUE, _fix_inconsistent_formats(cleaned_df, cleaning_log))
EncodeCategorical == Step(9, FALSE, _encode_categorical(cleaned_df, cleaning_log))
CreateBins == Step(10, FALSE, _create_bins(cleaned_df, cleaning_log))
FeatureEngineering == Step(11, FALSE, _feature_engineering(cleaned_df, cleaning_log))
AggregateTransform == Step(12, FALSE, _aggregate_transform(cleaned_df, cleaning_log))
CleanGeospatial == Step(13, FALSE, _clean_geospatial(cleaned_df, cleaning_log))
HandleUnitConversions ==
    Step(14, FALSE, _handle_unit_conversions(cleaned_df, cleaning_log))

\* EnhancedDataCleaner._generate_cleaning_summary; of the quality metrics
\* the data_consistency_score, a mean of floats no later step reads, is
\* left out
_generate_cleaning_summary(original_df, f, log) ==
    LET shape(g) == <<len(g), Len(g.columns)>>
        \* DataFrame.isnull().sum().sum()
        missing_cells(g) == SeqSum([j \in DOMAIN g.columns |-> isnull_count(column(g, j))])
        original_shape == shape(original_df)
        final_shape == shape(f)
        orig_total_cells == original_shape[1] * original_shape[2]
        cleaned_total_cells == final_shape[1] * final_shape[2]
    IN  [ original_shape |-> original_shape,
          final_shape |-> final_shape,
          rows_removed |-> original_shape[1] - final_shape[1],
          columns_removed |-> original_shape[2] - final_shape[2],
          cleaning_operations |-> Len(log),
          data_quality_improvement |->
              [ missing_value_reduction |->
                    IF orig_total_cells > 0
                    THEN Rat(missing_cells(original_df) - missing_cells(f), orig_total_cells)
                    ELSE Rat(0, 1),
                completeness_before |->
                    IF orig_total_cells > 0
                    THEN Rat(orig_total_cells - missing_cells(original_df), orig_total_cells)
                    ELSE Rat(0, 1),
                completeness_after |->
                    IF cleaned_total_cells > 0
                    THEN Rat(cleaned_total_cells - missing_cells(f), cleaned_total_cells)
                    ELSE Rat(1, 1) ],
          cleaning_log |-> log,
          final_data_types |-> f.dtypes,
          missing_values_final |-> [j \in DOMAIN f.columns |-> isnull_count(column(f, j))] ]

\* lines 111-116
FinishClean ==
    /\ pc = "summary"
    /\ results' = _generate_cleaning_summary(df, cleaned_df, cleaning_log)
    /\ pc' = "cleaned"
    /\ UNCHANGED <<llm_calls, entry, df, config, cleaned_df, cleaning_log, stages_run, target_column,
                   characteristics, eda_type, exception>>

CleanNext ==
    \/ BeginClean
    \/ HandleMissing
    \/ CorrectTypes
    \/ RemoveDuplicates
    \/ HandleOutliers
    \/ Standardize
    \/ CleanText
    \/ ValidateIntegrity
    \/ FixFormats
    \/ EncodeCategorical
    \/ CreateBins
    \/ FeatureEngineering
    \/ AggregateTransform
    \/ CleanGeospatial
    \/ HandleUnitConversions
    \/ FinishClean

CleanSpec == CleanInit /\ [][CleanNext]_vars

\* the stages the run has considered so far
considered ==
    IF pc = "clean_start" THEN 0
    ELSE IF pc \in FlagSet THEN (CHOOSE k \in DOMAIN Flags : Flags[k] = pc) - 1
    ELSE IF pc = "raised" THEN stages_run[Len(stages_run)]
    ELSE Len(Flags)

\* C5: at every point of a run of comprehensive_clean the stages run so far
\* are exactly the stages up to the current one whose flag is enabled (an
\* absent flag counts as enabled for stages 1-4 and 6-8 and as disabled for
\* stages 5 and 9-14), each once and in ascending order; a run that returns
\* has run exactly the enabled stages of 1..14.
C5_EnabledStagesInOrder ==
    /\ \A i \in 1..(Len(stages_run) - 1) : stages_run[i] < stages_run[i + 1]
    /\ {stages_run[i] : i \in DOMAIN stages_run}
         = {k \in 1..considered :
               IF Flags[k] \in config.present THEN Flags[k] \in config.enabled
               ELSE k \in {1, 2, 3, 4, 6, 7, 8}}

\* the run of config {'standardize': True} has returned: the stages on by
\* default and stage 5
C5_Witness ==
    /\ pc = "cleaned"
    /\ config.present = {"standardize"}
    /\ stages_run = <<1, 2, 3, 4, 5, 6, 7, 8>>

\* C6: a stage that changes the number of rows appends to the log exactly
\* one entry whose rows_before and rows_after are the row counts before and
\* after the stage and whose rows_changed is their difference.
C6_RowChangesLoggedOnce ==
    [][ (pc \in FlagSet /\ pc' # "raised" /\ len(cleaned_df') # len(cleaned_df)) =>
            Cardinality({i \in (Len(cleaning_log) + 1)..Len(cleaning_log') :
                            /\ cleaning_log'[i].rows_before = len(cleaned_df)
                            /\ cleaning_log'[i].rows_after = len(cleaned_df')
                            /\ cleaning_log'[i].rows_changed
                                 = len(cleaned_df) - len(cleaned_df')}) = 1 ]_vars

(***************************************************************************)
(* DefaultsSpec: comprehensive_clean(df) with config omitted, then         *)
(* comprehensive_clean(df, {}) of a new cleaner on the same frame; results *)
(* is the summary the last call returned.                                  *)
(***************************************************************************)
DefaultsInit ==
    /\ pc = "clean_start"
    /\ df \in CleanFrames
    /\ config = ConfigNone
    /\ cleaned_df = NoFrame
    /\ cleaning_log = <<>>
    /\ stages_run = <<>>
    /\ entry = None
    /\ llm_calls = <<>>
    /\ target_column = NoTarget
    /\ characteristics = None
    /\ eda_type = None
    /\ results = None
    /\ exception = None

\* EnhancedDataCleaner().comprehensive_clean(df, {}) after the call without
\* config returned
CleanWithEmptyConfig ==
    /\ pc = "cleaned"
    /\ config = _get_default_config
    /\ config' = Config({}, {}, "absent", "absent", <<>>)
    /\ pc' = "clean_start"
    /\ cleaned_df' = NoFrame
    /\ cleaning_log' = <<>>
    /\ stages_run' = <<>>
    /\ UNCHANGED <<llm_calls, entry, df, target_column, characteristics, eda_type, results, exception>>

DefaultsNext == CleanNext \/ CleanWithEmptyConfig

DefaultsSpec == DefaultsInit /\ [][DefaultsNext]_vars

\* C19: the call with an empty config mapping returns what the call with
\* config omitted returned on the same frame: a cleaned frame of the same
\* shape, dtypes and missing cells, and a log of the same operations.
C19_EmptyConfigLikeOmitted ==
    [][ (pc = "summary" /\ config.present = {}) =>
            /\ results'.final_shape = results.final_shape
            /\ results'.final_data_types = results.final_data_types
            /\ results'.missing_values_final = results.missing_values_final
            /\ [i \in DOMAIN results'.cleaning_log |-> results'.cleaning_log[i].operation]
                 = [i \in DOMAIN results.cleaning_log |-> results.cleaning_log[i].operation]
      ]_vars

(***************************************************************************)
(* EntrySpec: the public entry points, python_backend/data_processor.py    *)
(* (process_data), eda_engine.py (intelligent_eda_analysis),               *)
(* enhanced_data_cleaner.py (enhanced_clean_data), query_analyzer.py       *)
(* (analyze_query) and domain_detection.py (detect_data_domain).           *)
(*                                                                         *)
(* entry is the call: [point, data_type, data, rules].  data_type is the   *)
(* python type of the data argument ("str": CSV text with a header line    *)
(* and rows, "list": a list of records, "DataFrame", "other": any other    *)
(* type); data is the frame the argument denotes, NoFrame for an empty     *)
(* list.  rules is process_data's preprocessing_rules: None, a text        *)
(* without the enhanced-cleaning keywords, or a text with one and nothing  *)
(* else.  The imports of data_processor.py have succeeded.  The language   *)
(* model behind analyze_query and detect_data_domain answers or fails.     *)
(***************************************************************************)
MaxEntryRows == 3

NameError == "NameError"

\* the frame as the engine reads it: select_dtypes, value_counts(),
\* astype(str).str.len().mean() (of the object and category columns, whose
\* strings are shorter than the thresholds; rounded down) and duplicated()
describe(f) ==
    LET value_counts(cells) ==
            LET n(v) == Cardinality({i \in DOMAIN cells : cells[i] = v})
                RECURSIVE sorted(_)
                sorted(vs) ==
                    IF vs = {} THEN <<>>
                    ELSE LET top == CHOOSE v \in vs : \A w \in vs : n(w) <= n(v)
                         IN  <<n(top)>> \o sorted(vs \ {top})
            IN  sorted({cells[i] : i \in DOMAIN cells} \ {NaN})
        avg_length(cells) ==
            IF cells = <<>> THEN 0
            ELSE SeqSum([i \in DOMAIN cells |-> Len(astype_str(cells[i]))]) \div Len(cells)
    IN  [ rows |-> len(f),
          duplicated |-> len(f) - Cardinality({f.data[i] : i \in DOMAIN f.data}),
          columns |-> [j \in DOMAIN f.columns |->
              [ name |-> f.columns[j],
                dtype |-> f.dtypes[j],
                value_counts |-> value_counts(column(f, j)),
                avg_length |-> IF f.dtypes[j] \in {"object", "category"}
                               THEN avg_length(column(f, j)) ELSE 0 ]] ]

DataPoints == {"process_data", "intelligent_eda_analysis", "enhanced_clean_data"}

EntryCalls ==
    LET EntryFrames == {f \in CleanFrames : len(f) <= MaxEntryRows}
        Arguments ==
            {<<"str", f>> : f \in {g \in EntryFrames : len(g) > 0}}
            \cup {<<"list", f>> : f \in {g \in EntryFrames : len(g) > 0} \cup {NoFrame}}
            \cup {<<"DataFrame", f>> : f \in EntryFrames \cup {NoFrame}}
            \cup {<<"other", NoFrame>>}
    IN  {[point |-> p, data_type |-> a[1], data |-> a[2], rules |-> r] :
            p \in {"process_data"}, a \in Arguments,
            r \in {"None", "basic", "enhanced_cleaning"}}
        \cup {[point |-> p, data_type |-> a[1], data |-> a[2], rules |-> "None"] :
            p \in {"intelligent_eda_analysis", "enhanced_clean_data", "analyze_query"},
            a \in Arguments}
        \cup {[point |-> "detect_data_domain", data_type |-> "list", data |-> NoFrame,
                rules |-> "None"]}

EntryInit ==
    /\ pc = "call"
    /\ entry \in EntryCalls
    /\ llm_calls = <<>>
    /\ df = None
    /\ target_column = NoTarget
    /\ characteristics = None
    /\ eda_type = None
    /\ results = None
    /\ exception = None
    /\ config = None
    /\ cleaned_df = NoFrame
    /\ cleaning_log = <<>>
    /\ stages_run = <<>>

\* process_data's except clause: what it returns for the exception e
failure(e) == [success |-> FALSE, error |-> e, timestamp |-> "now"]

\* intelligent_eda_analysis, lines 421-431: the conversion, then the engine
CallIntelligentEDA ==
    /\ pc = "call"
    /\ entry.point = "intelligent_eda_analysis"
    /\ IF entry.data_type \in {"str", "list", "DataFrame"}
       THEN /\ df' = describe(entry.data)
            /\ pc' = "start"
            /\ UNCHANGED exception
       ELSE /\ exception' = ValueError
            /\ pc' = "raised"
            /\ UNCHANGED df
    /\ UNCHANGED <<cleaner_vars, entry, llm_calls>>
    /\ UNCHANGED <<target_column, characteristics, eda_type, results>>

\* enhanced_clean_data, lines 801-813, called without config
CallEnhancedClean ==
    /\ pc = "call"
    /\ entry.point = "enhanced_clean_data"
    /\ IF entry.data_type \in {"str", "list", "DataFrame"}
       THEN /\ df' = entry.data
            /\ config' = ConfigNone
            /\ pc' = "clean_start"
            /\ UNCHANGED exception
       ELSE /\ exception' = ValueError
            /\ pc' = "raised"
            /\ UNCHANGED <<df, config>>
    /\ UNCHANGED <<llm_calls, entry, cleaned_df, cleaning_log, stages_run, target_column,
                   characteristics, eda_type, results>>

\* process_data, lines 53-82: the conversion, the rules, and the branch on
\* rules_config.get('enhanced_cleaning', False).  The else branch calls
\* preprocess_dataframe, a name no module of the repository defines.
CallProcessData ==
    /\ pc = "call"
    /\ entry.point = "process_data"
    /\ IF entry.data_type \notin {"str", "list"}
       THEN /\ results' = failure(ValueError)
            /\ pc' = "done"
            /\ UNCHANGED <<df, config>>
       ELSE IF entry.rules # "enhanced_cleaning"
       THEN /\ results' = failure(NameError)
            /\ pc' = "done"
            /\ df' = entry.data
            /\ UNCHANGED config
       ELSE /\ df' = entry.data
            /\ config' = Config(FlagSet,
                              {"handle_missing", "correct_types", "remove_duplicates",
                               "handle_outliers", "clean_text", "validate_integrity",
                               "fix_formats"},
                              "absent", "absent", <<>>)
            /\ pc' = "clean_start"
            /\ UNCHANGED results
    /\ UNCHANGED <<llm_calls, entry, cleaned_df, cleaning_log, stages_run, target_column,
                   characteristics, eda_type, exception>>

\* process_data, lines 85-90: intelligent_eda_analysis(df, target_column) on
\* the cleaned frame
ProcessDataAnalyze ==
    /\ pc = "cleaned"
    /\ entry.point = "process_data"
    /\ df' = describe(cleaned_df)
    /\ pc' = "start"
    /\ UNCHANGED <<cleaner_vars, entry, llm_calls>>
    /\ UNCHANGED <<target_column, characteristics, eda_type, results, exception>>

\* process_data, lines 96-102: insights, final_shape, the summary, return
ProcessDataReturn ==
    /\ pc = "returned"
    /\ entry.point = "process_data"
    /\ results' = [ success |-> TRUE,
                    timestamp |-> "now",
                    original_shape |-> <<len(entry.data), Len(entry.data.columns)>>,
                    cleaning_applied |-> TRUE,
                    eda_analysis |-> results,
                    insights |-> results["eda_metadata"].eda_type,
                    final_shape |-> <<len(cleaned_df), Len(cleaned_df.columns)>>,
                    processing_summary |-> "success" ]
    /\ pc' = "done"
    /\ UNCHANGED <<cleaner_vars, entry, llm_calls>>
    /\ UNCHANGED <<df, target_column, characteristics, eda_type, exception>>

\* process_data, lines 104-110: except Exception
ProcessDataExcept ==
    /\ pc = "raised"
    /\ entry.point = "process_data"
    /\ results' = failure(exception)
    /\ exception' = None
    /\ pc' = "done"
    /\ UNCHANGED <<cleaner_vars, entry, llm_calls>>
    /\ UNCHANGED <<df, target_column, characteristics, eda_type>>

\* analyze_query: convert_to_dataframe raises ValueError for CSV text (the
\* AttributeError of pd.StringIO, re-raised), an empty list and any other
\* type; generate_ai_query_response returns the parsed answer or raises
\* (its handlers call create_fallback_query_response, which is not
\* defined); analyze_query's except clause returns the error answer
AnalyzeQuery ==
    /\ pc = "call"
    /\ entry.point = "analyze_query"
    /\ \E answered \in BOOLEAN :
          /\ results' = IF entry.data_type = "list" /\ len(entry.data) > 0 /\ answered
                        THEN [answer |-> "answer", sql |-> "sql", visualization |-> "chart"]
                        ELSE [answer |-> "Error analyzing query", sql |-> "",
                              visualization |-> None]
          /\ llm_calls' = IF entry.data_type = "list" /\ len(entry.data) > 0
                          THEN Append(llm_calls, [chain |-> "query", ok |-> answered])
                          ELSE llm_calls
    /\ pc' = "done"
    /\ UNCHANGED <<cleaner_vars, entry>>
    /\ UNCHANGED <<df, target_column, characteristics, eda_type, exception>>

\* detect_data_domain: the parsed classification, or the error record of
\* its except clause
DetectDataDomain ==
    /\ pc = "call"
    /\ entry.point = "detect_data_domain"
    /\ \E answered \in BOOLEAN :
          /\ results' = [ domain |-> IF answered THEN "Generic" ELSE "Error",
                          reason |-> "reason",
                          confidence |-> IF answered THEN Rat(1, 2) ELSE Rat(0, 1),
                          features |-> <<>> ]
          /\ llm_calls' = Append(llm_calls, [chain |-> "detect", ok |-> answered])
    /\ pc' = "done"
    /\ UNCHANGED <<cleaner_vars, entry>>
    /\ UNCHANGED <<df, target_column, characteristics, eda_type, exception>>

EntryNext ==
    \/ CallIntelligentEDA
    \/ CallEnhancedClean
    \/ CallProcessData
    \/ ProcessDataAnalyze
    \/ ProcessDataReturn
    \/ ProcessDataExcept
    \/ AnalyzeQuery
    \/ DetectDataDomain
    \/ Next
    \/ CleanNext

EntrySpec == EntryInit /\ [][EntryNext]_vars

\* C11: no entry point lets an exception escape to its caller: a call of
\* intelligent_eda_analysis, enhanced_clean_data, analyze_query or
\* detect_data_domain never ends raised, and a finished process_data call
\* that failed returns exactly {success: false, error, timestamp}.
C11_NoExceptionEscapes ==
    /\ pc = "raised" => entry.point = "process_data"
    /\ (pc = "done" /\ entry.point = "process_data" /\ ~results.success)
        => DOMAIN results = {"success", "error", "timestamp"}

\* C12: a data entry point given an empty list of records rejects it with
\* an input-format error before any cleaning, characteristics or routing
\* step has run.
C12_EmptyListRejected ==
    (entry.point \in DataPoints /\ entry.data_type = "list" /\ entry.data = NoFrame)
        => \/ pc = "call"
           \/ /\ pc = "raised"
              /\ exception = ValueError
              /\ stages_run = <<>>
              /\ characteristics = None
           \/ /\ pc = "done"
              /\ results = failure(ValueError)
              /\ stages_run = <<>>
              /\ characteristics = None

\* C13: process_data called with records and with rules that do not request
\* enhanced cleaning returns success = true with eda_analysis, insights and
\* final_shape, no cleaning stage having run.
C13_AnalysisWithoutCleaning ==
    ( /\ pc = "done"
      /\ entry.point = "process_data"
      /\ entry.data_type \in {"str", "list"}
      /\ len(entry.data) > 0
      /\ entry.rules # "enhanced_cleaning" )
        => /\ results.success
           /\ {"eda_analysis", "insights", "final_shape"} \subseteq DOMAIN results
           /\ stages_run = <<>>

(***************************************************************************)
(* Consistency of the characteristics record                               *)
(***************************************************************************)
\* C30: the characteristics produced by _analyze_dataset_characteristics
\* are mutually consistent: text_columns + high_cardinality_columns <=
\* categorical_columns, numeric + categorical + datetime <= columns,
\* datetime_columns > 0 implies is_time_series, and is_imbalanced implies
\* has_target_variable.
C30_CharacteristicsConsistent ==
    pc \in {"analyzed", "routed", "executed", "returned"}
        => /\ characteristics.text_columns + characteristics.high_cardinality_columns
                <= characteristics.categorical_columns
           /\ characteristics.numeric_columns + characteristics.categorical_columns
                + characteristics.datetime_columns <= characteristics.columns
           /\ characteristics.datetime_columns > 0 => characteristics.is_time_series
           /\ characteristics.is_imbalanced => characteristics.has_target_variable

C30_Witness ==
    /\ pc = "analyzed"
    /\ characteristics.text_columns >= 1
    /\ characteristics.high_cardinality_columns >= 1
    /\ characteristics.datetime_columns > 0
    /\ characteristics.is_imbalanced

\* C22: a report made without a usable target column (none supplied, or a
\* name that is not a column) carries an explanatory stub in the slot of
\* each target-dependent sub-analysis: a feature_importance block that is a
\* message, and an imbalance result that is not a silent default value.
C22_TargetStubsPresent ==
    (pc = "returned" /\ ~has_target(df, target_column))
        => /\ "feature_importance" \in DOMAIN results
           /\ results["feature_importance"] = "message"
           /\ results["eda_metadata"].characteristics.is_imbalanced \notin BOOLEAN

\* C27: with fuzzy_matching enabled one run of _remove_duplicates leaves no
\* two rows that are equal after its normalisation: rows that differ only
\* in letter case or surrounding whitespace are reduced to a single row.
C27_FuzzyDuplicatesReduced ==
    (pc = "dedup_once" /\ fuzzy_matching(config))
        => \A i, k \in DOMAIN cleaned_df.data :
               i # k => cleaned_df.data[i] # cleaned_df.data[k]

(***************************************************************************)
(* DateSpec: _validate_data_integrity applied to a frame of three datetime *)
(* columns, as comprehensive_clean calls it at stage 7.  The column names  *)
(* hold 'start', 'end', or both ('weekend_start').                         *)
(***************************************************************************)
MaxDateRows == 2
MaxDay == 3

DateInputs ==
    LET start == <<"s","t","a","r","t">>
        start2 == <<"s","t","a","r","t","2">>
        end == <<"e","n","d">>
        end2 == <<"e","n","d","2">>
        weekend_start == <<"w","e","e","k","e","n","d","_","s","t","a","r","t">>
        Names == { <<start, end, end2>>, <<start, start2, end>>,
                   <<weekend_start, end, start>> }
        Days == {NaN} \cup {Number(i) : i \in 1..MaxDay}
        DateFrame(names, rows) ==
            [ columns |-> names,
              dtypes |-> [j \in 1..3 |-> "datetime64"],
              categories |-> [j \in 1..3 |-> {}],
              data |-> rows ]
    IN  {[df |-> DateFrame(names, rows),
          config |-> [Config({}, {}, "absent", "absent", <<>>) EXCEPT !.fix_date_logic = z]] :
            names \in Names,
            rows \in UNION {[1..n -> [1..3 -> Days]] : n \in 1..MaxDateRows},
            z \in {"absent", "True", "False"}}

DateInit ==
    /\ pc = "stage_input"
    /\ \E inp \in DateInputs : df = inp.df /\ config = inp.config /\ cleaned_df = inp.df
    /\ cleaning_log = <<>>
    /\ stages_run = <<>>
    /\ entry = None
    /\ llm_calls = <<>>
    /\ target_column = NoTarget
    /\ characteristics = None
    /\ eda_type = None
    /\ results = None
    /\ exception = None

StageValidateIntegrity ==
    /\ pc = "stage_input"
    /\ LET r == _validate_data_integrity(cleaned_df, fix_date_logic(config),
                                         config.domain_constraints, cleaning_log)
       IN  cleaned_df' = r.df /\ cleaning_log' = r.log
    /\ pc' = "integrity_done"
    /\ stages_run' = Append(stages_run, 7)
    /\ UNCHANGED <<llm_calls, entry, df, config, target_column, characteristics, eda_type, results, exception>>

DateSpec == DateInit /\ [][StageValidateIntegrity]_vars

\* the pairs (start column, end column) of a frame
StartEndPairs(f) ==
    {p \in (DOMAIN f.columns) \X (DOMAIN f.columns) :
        /\ f.dtypes[p[1]] = "datetime64" /\ f.dtypes[p[2]] = "datetime64"
        /\ Contains(Lower(f.columns[p[1]]), <<"s","t","a","r","t">>)
        /\ Contains(Lower(f.columns[p[2]]), <<"e","n","d">>)}

\* the row holds both dates of the pair and the start is after the end
Inverted(row, p) ==
    /\ ~isnull(row[p[1]]) /\ ~isnull(row[p[2]])
    /\ row[p[1]][1].a > row[p[2]][1].a

\* C26: after integrity validation with fix_date_logic enabled no row has a
\* start after an end in any start/end pair of datetime columns, no row is
\* dropped, and a row that was ordered in every pair is unchanged.
C26_StartBeforeEnd ==
    (pc = "integrity_done" /\ fix_date_logic(config))
        => /\ len(cleaned_df) = len(df)
           /\ \A i \in DOMAIN cleaned_df.data : \A p \in StartEndPairs(cleaned_df) :
                  ~Inverted(cleaned_df.data[i], p)
           /\ \A i \in DOMAIN df.data :
                  (\A p \in StartEndPairs(df) : ~Inverted(df.data[i], p))
                      => cleaned_df.data[i] = df.data[i]

\* C21: the encoding stage keeps every object or category column it encodes
\* under its original name with its original values.
C21_EncodedColumnsRetained ==
    [][ stages_run' = Append(stages_run, 9)
          => \A j \in DOMAIN cleaned_df.columns :
                cleaned_df.dtypes[j] \in {"object", "category"}
                  => \E k \in DOMAIN cleaned_df'.columns :
                        /\ cleaned_df'.columns[k] = cleaned_df.columns[j]
                        /\ column(cleaned_df', k) = column(cleaned_df, j) ]_vars

(***************************************************************************)
(* DomainSpec: domain_detection.detect_data_domain and                     *)
(* domain_router.DomainRouter.route_and_analyze.  Each is one action; the  *)
(* language model's answers are inputs of the action.                      *)
(*                                                                         *)
(* A JSON value is [t, v]: t its type ("absent" for a missing key, "empty" *)
(* for a falsy value, "str", "num", "list", "other"), v its value.         *)
(***************************************************************************)
\* str.title(): a letter is upper-cased after a non-letter and lower-cased
\* after a letter
title(s) ==
    LET is_letter(c) == \E i \in DOMAIN UpperCase : c \in {UpperCase[i], LowerCase[i]}
        UpperChar(c) ==
            IF \E i \in DOMAIN LowerCase : LowerCase[i] = c
            THEN UpperCase[CHOOSE i \in DOMAIN LowerCase : LowerCase[i] = c]
            ELSE c
    IN  [i \in DOMAIN s |->
            IF i = 1 \/ ~is_letter(s[i - 1]) THEN UpperChar(s[i]) ELSE LowerChar(s[i])]

DOMAIN_FINANCE == <<"F","i","n","a","n","c","e">>
DOMAIN_FOOD == <<"F","o","o","d">>
DOMAIN_SALES == <<"S","a","l","e","s">>
DOMAIN_HEALTHCARE == <<"H","e","a","l","t","h","c","a","r","e">>
DOMAIN_EDUCATION == <<"E","d","u","c","a","t","i","o","n">>
DOMAIN_HR == <<"H","R">>
DOMAIN_MARKETING == <<"M","a","r","k","e","t","i","n","g">>
DOMAIN_GENERIC == <<"G","e","n","e","r","i","c">>

SUPPORTED_DOMAINS ==
    { DOMAIN_FINANCE, DOMAIN_FOOD, DOMAIN_SALES, DOMAIN_HEALTHCARE, DOMAIN_EDUCATION,
      DOMAIN_HR, DOMAIN_MARKETING, DOMAIN_GENERIC }

\* domain.strip().title()
normalize_domain(domain) == title(strip(domain))

\* a normalisation that keeps the letter case of the name
normalize_domain_keeping_case(domain) == strip(domain)

Absent == [t |-> "absent", v |-> 0]
Str(chars) == [t |-> "str", v |-> chars]
Num(q) == [t |-> "num", v |-> q]

\* extract_features_from_reason: a list, or AttributeError at col.lower()
\* when a column label is not a string
extract_features_from_reason(reason, columns) ==
    IF columns = "not_str" THEN [exc |-> "AttributeError", value |-> Absent]
    ELSE [exc |-> None, value |-> [t |-> "list", v |-> 0]]

\* the response returned as parsed, without validation
_parse_domain_result_unvalidated(result, columns) ==
    [ exc |-> None,
      value |-> [ domain |-> result.domain.v, confidence |-> result.confidence,
                  reason |-> result.reason, features |-> result.features ] ]

\* domain_detection._parse_domain_result
_parse_domain_result(result, columns) ==
    LET \* lines 171-179: the except clause
        default_response ==
            LET features == extract_features_from_reason(result, columns)
            IN  IF features.exc # None THEN features
                ELSE [ exc |-> None,
                       value |-> [ domain |-> DOMAIN_GENERIC,
                                   confidence |-> Num(Rat(1, 2)),
                                   reason |-> Str(<<"e","r","r","o","r">>),
                                   features |-> features.value ] ]
        \* lines 155-157
        normalized_domain ==
            IF normalize_domain(result.domain.v) \in SUPPORTED_DOMAINS
            THEN normalize_domain(result.domain.v) ELSE DOMAIN_GENERIC
        \* lines 160-161
        confidence == IF result.confidence.t # "num" THEN Rat(7, 10) ELSE result.confidence.v
        \* line 167: min(1.0, max(0.0, float(confidence)))
        at_least_0 == IF RatGT(confidence, 0) THEN confidence ELSE Rat(0, 1)
        clamped == IF RatLT(at_least_0, 1) THEN at_least_0 ELSE Rat(1, 1)
        \* lines 162-163
        features ==
            IF result.features.t = "list" THEN [exc |-> None, value |-> result.features]
            ELSE IF result.reason.t \in {"absent", "str"}
            THEN extract_features_from_reason(result.reason, columns)
            ELSE [exc |-> "TypeError", value |-> Absent]
    IN  IF result.kind = "text" THEN default_response
        ELSE IF result.domain.t \in {"absent", "empty", "other"} THEN default_response
        ELSE IF features.exc # None THEN default_response
        ELSE [ exc |-> None,
               value |-> [ domain |-> normalized_domain,
                           confidence |-> Num(clamped),
                           reason |-> IF result.reason.t = "absent"
                                      THEN Str(<<"d","e","t","e","c","t","e","d">>)
                                      ELSE result.reason,
                           features |-> features.value ] ]

\* the names a caller or the language model gives a domain
DomainNames ==
    SUPPORTED_DOMAINS
    \cup { <<"h","r">>, <<" ","f","i","n","a","n","c","e"," ">>,
           <<"H","E","A","L","T","H","C","A","R","E">>, <<"W","e","a","t","h","e","r">> }

\* what the language model answers to the detection prompt
Responses ==
    { [kind |-> k, domain |-> Absent, confidence |-> Absent, reason |-> Absent,
       features |-> Absent] : k \in {"raises", "text"} }
    \cup
    { [kind |-> "json", domain |-> d, confidence |-> c, reason |-> r, features |-> f] :
        d \in {Absent, [t |-> "empty", v |-> 0], [t |-> "other", v |-> 0]}
              \cup {Str(n) : n \in DomainNames},
        c \in {Absent, Str(<<"h","i","g","h">>)}
              \cup {Num(Rat(n, 10)) : n \in {0 - 5, 0, 7, 10, 15}} \cup {Num(Rat(0, 0))},
        r \in {Absent, Str(<<"r","e","a","s","o","n">>), [t |-> "other", v |-> 0]},
        f \in {Absent, [t |-> "list", v |-> 0], [t |-> "other", v |-> 0]} }

DomainCalls ==
    { [point |-> "detect_data_domain", columns |-> c, response |-> r] :
        c \in {"strs", "not_str"}, r \in Responses }
    \cup
    { [point |-> "route_and_analyze", domain |-> d, data_type |-> t] :
        d \in DomainNames,
        t \in {"DataFrame", "list", "empty_list", "json_str", "csv_str", "other"} }

DomainInit ==
    /\ pc = "call"
    /\ entry \in DomainCalls
    /\ llm_calls = <<>>
    /\ df = None
    /\ target_column = NoTarget
    /\ characteristics = None
    /\ eda_type = None
    /\ results = None
    /\ exception = None
    /\ config = None
    /\ cleaned_df = None
    /\ cleaning_log = <<>>
    /\ stages_run = <<>>

\* detect_data_domain: ", ".join(columns) in _build_domain_prompt raises
\* for a label that is not a string, before the model is called
DetectDomain ==
    /\ pc = "call"
    /\ entry.point = "detect_data_domain"
    /\ LET error == [ domain |-> <<"E","r","r","o","r">>,
                      reason |-> Str(<<"u","n","a","b","l","e">>),
                      confidence |-> Num(Rat(0, 1)),
                      features |-> [t |-> "list", v |-> 0] ]
           parsed == _parse_domain_result(entry.response, entry.columns)
       IN  IF entry.columns = "not_str"
           THEN results' = error /\ UNCHANGED llm_calls
           ELSE /\ llm_calls' = Append(llm_calls, [chain |-> "detect",
                                                   ok |-> entry.response.kind # "raises"])
                /\ results' = IF entry.response.kind = "raises" \/ parsed.exc # None
                              THEN error ELSE parsed.value
    /\ pc' = "done"
    /\ UNCHANGED <<cleaner_vars, entry>>
    /\ UNCHANGED <<df, target_column, characteristics, eda_type, exception>>

\* DomainRouter.route_and_analyze.  pd.read_csv(data) reads data as a path,
\* so CSV text fails and only a JSON list is read from a string.
RouteAndAnalyze ==
    /\ pc = "call"
    /\ entry.point = "route_and_analyze"
    /\ LET normalized_domain == normalize_domain(entry.domain)
           chain == IF normalized_domain \in SUPPORTED_DOMAINS
                    THEN normalized_domain ELSE DOMAIN_GENERIC
           analysis(d) == [ domain |-> d, analysis |-> "result", question |-> "question",
                            processed_sample_size |-> 1, total_rows |-> 1,
                            column_count |-> 1, columns |-> <<"c">> ]
       IN  IF entry.data_type \notin {"DataFrame", "list", "json_str"}
           THEN /\ pc' = "raised"
                /\ exception' = ValueError
                /\ UNCHANGED <<results, llm_calls>>
           ELSE /\ pc' = "done"
                /\ UNCHANGED exception
                /\ \E first_ok, second_ok \in BOOLEAN :
                      IF first_ok
                      THEN /\ llm_calls' = Append(llm_calls, [chain |-> chain, ok |-> TRUE])
                           /\ results' = analysis(chain)
                      ELSE IF chain # DOMAIN_GENERIC
                      THEN /\ llm_calls' = llm_calls \o
                                  << [chain |-> chain, ok |-> FALSE],
                                     [chain |-> DOMAIN_GENERIC, ok |-> second_ok] >>
                           /\ results' =
                                  IF second_ok
                                  THEN analysis(DOMAIN_GENERIC) @@ [error_reason |-> "e"]
                                  ELSE [ error |-> "Analysis failed",
                                         details |-> "Error occurred while handling the original error",
                                         original_error |-> "e" ]
                      ELSE /\ llm_calls' = Append(llm_calls, [chain |-> chain, ok |-> FALSE])
                           /\ results' = [error |-> "Analysis failed", details |-> "e"]
    /\ UNCHANGED <<cleaner_vars, entry>>
    /\ UNCHANGED <<df, target_column, characteristics, eda_type>>

DomainNext == DetectDomain \/ RouteAndAnalyze

DomainSpec == DomainInit /\ [][DomainNext]_vars

\* C23: within one call, once a call to the language model has failed no
\* further call is made: a failed call is the last one, and a request makes
\* at most one call.
C23_NoCallAfterFailure ==
    /\ Len(llm_calls) <= 1
    /\ \A i \in 1..(Len(llm_calls) - 1) : llm_calls[i].ok

\* C24: detect_data_domain returns, for every response of the language
\* model and for a call that raises, a mapping with exactly the keys
\* domain, confidence, reason, features, confidence a number in [0, 1],
\* features a list, domain a supported domain or 'Error'.
C24_DetectionWellFormed ==
    entry.point = "detect_data_domain"
        => /\ pc \in {"call", "done"}
           /\ pc = "done"
                => /\ DOMAIN results = {"domain", "confidence", "reason", "features"}
                   /\ results.confidence.t = "num"
                   /\ results.confidence.v.den > 0
                   /\ results.confidence.v.num >= 0
                   /\ results.confidence.v.num <= results.confidence.v.den
                   /\ results.features.t = "list"
                   /\ results.domain \in SUPPORTED_DOMAINS \cup {<<"E","r","r","o","r">>}

C24_Witness ==
    /\ pc = "done"
    /\ entry.point = "detect_data_domain"
    /\ entry.columns = "strs"
    /\ entry.response.kind = "json"
    /\ entry.response.domain = Str(DOMAIN_FINANCE)
    /\ entry.response.confidence = Num(Rat(15, 10))
    /\ entry.response.features.t = "other"
    /\ results.domain = DOMAIN_FINANCE
    /\ results.confidence = Num(Rat(1, 1))

\* C28: the normalisation maps every supported domain name to itself, so
\* a call of route_and_analyze for a supported domain runs that domain's
\* chain first, and a detection that names a supported domain reports it.
C28_SupportedDomainsKeepTheirChain ==
    /\ ( /\ pc = "done" /\ entry.point = "route_and_analyze"
         /\ entry.domain \in SUPPORTED_DOMAINS )
            => llm_calls[1].chain = entry.domain
    /\ ( /\ pc = "done" /\ entry.point = "detect_data_domain"
         /\ entry.columns = "strs"
         /\ entry.response.kind = "json"
         /\ entry.response.domain.t = "str"
         /\ entry.response.domain.v \in SUPPORTED_DOMAINS
         /\ entry.response.features.t = "list" )
            => results.domain = entry.response.domain.v

(***************************************************************************)
(* ProfileSpec: data_processor.profile_column.  A column is described by   *)
(* its dtype, the number of its missing cells and its value counts: unique *)
(* distinct values, the i-th occurring each times and the first one extra  *)
(* times more, which is the order value_counts() lists them in.  Every     *)
(* string value has one character.  The descriptor holds no cell values,   *)
(* so the value statistics of numeric and datetime columns (min, max,      *)
(* mean, median, std, range_days) are not represented.                     *)
(***************************************************************************)
MaxDistinct == 22
MaxEach == 33
MaxMissing == 2

ProfileColumns ==
    { [dtype |-> t, unique |-> u, each |-> e, extra |-> x, missing |-> m] :
        t \in {"string", "numeric", "datetime"}, u \in 0..MaxDistinct, e \in 1..MaxEach,
        x \in 0..1, m \in 0..MaxMissing }

\* col_data.value_counts(dropna=True): the counts, largest first
value_counts(col) == [i \in 1..col.unique |-> col.each + (IF i = 1 THEN col.extra ELSE 0)]

\* len(col_data)
col_count(col) ==
    col.missing + (IF col.unique = 0 THEN 0 ELSE (col.unique * col.each) + col.extra)

\* every value listed
top_n_unbounded(counts) == Len(counts)

\* top_n = min(10, len(value_counts))
top_n(counts) == IF Len(counts) < 10 THEN Len(counts) ELSE 10

\* data_processor.profile_column; a / b * 100 < k is compared as
\* a * 100 < k * b, which agrees with the floating-point result for every
\* count up to 2000
profile_column(col) ==
    LET n_count == col_count(col)
        missing_count == col.missing
        unique_count == col.unique
        non_missing == n_count - missing_count
        basic ==
            [ count |-> n_count, missing_count |-> missing_count,
              missing_percentage |-> IF n_count > 0 THEN Rat(missing_count * 100, n_count)
                                     ELSE Rat(0, 1),
              unique_count |-> unique_count,
              unique_percentage |-> IF n_count > 0 THEN Rat(unique_count * 100, n_count)
                                    ELSE Rat(0, 1) ]
        is_likely_id ==
            /\ n_count > 0
            /\ unique_count * 100 > 90 * n_count
            /\ missing_count * 100 < 5 * n_count
        length == IF non_missing > 0 THEN 1 ELSE 0
        \* unique_pct is 0 when no value is present
        categorical ==
            \/ IF non_missing > 0 THEN unique_count * 100 < 15 * non_missing ELSE TRUE
            \/ unique_count < 20
        top_values ==
            [i \in 1..top_n(value_counts(col)) |-> [value |-> i, count |-> value_counts(col)[i]]]
        string ==
            basic @@ [ data_type |-> "string", min_length |-> length, max_length |-> length,
                       avg_length |-> length, is_categorical |-> categorical ]
    IN  IF col.dtype = "numeric"
        THEN basic @@ [data_type |-> "numeric", is_likely_id |-> is_likely_id]
        ELSE IF col.dtype = "string"
        THEN IF categorical THEN string @@ [top_values |-> top_values] ELSE string
        ELSE basic @@ [data_type |-> "datetime"]

ProfileInit ==
    /\ pc = "column"
    /\ entry \in ProfileColumns
    /\ llm_calls = <<>>
    /\ df = None
    /\ target_column = NoTarget
    /\ characteristics = None
    /\ eda_type = None
    /\ results = None
    /\ exception = None
    /\ config = None
    /\ cleaned_df = None
    /\ cleaning_log = <<>>
    /\ stages_run = <<>>

ProfileColumn ==
    /\ pc = "column"
    /\ pc' = "profiled"
    /\ results' = profile_column(entry)
    /\ UNCHANGED <<llm_calls, entry, cleaner_vars>>
    /\ UNCHANGED <<df, target_column, characteristics, eda_type, exception>>

ProfileSpec == ProfileInit /\ [][ProfileColumn]_vars

\* C25: profile_column on a string column sets is_categorical exactly when
\* the unique percentage of the non-missing values is below 15 or the
\* unique count is below 20; top_values is present exactly when
\* is_categorical is true, and then lists min(10, distinct values)
\* value/count pairs; 3 distinct values over 100 rows are categorical with
\* 3 entries.
C25_CategoricalTopValues ==
    (pc = "profiled" /\ entry.dtype = "string")
        => LET present == col_count(entry) - entry.missing
               distinct == entry.unique
               below_15 == IF present > 0 THEN distinct * 100 < 15 * present ELSE TRUE
           IN  /\ results.is_categorical <=> (below_15 \/ distinct < 20)
               /\ ("top_values" \in DOMAIN results) <=> results.is_categorical
               /\ results.is_categorical
                    => /\ Len(results.top_values) = (IF distinct < 10 THEN distinct ELSE 10)
                       /\ Len(results.top_values) <= 10
               /\ (distinct = 3 /\ col_count(entry) = 100)
                    => (results.is_categorical /\ Len(results.top_values) = 3)

C25_Witness ==
    /\ pc = "profiled"
    /\ entry.dtype = "string"
    /\ entry.unique = 21
    /\ entry.each = 7
    /\ results.is_categorical
    /\ Len(results.top_values) = 10

C25_WitnessScenario ==
    /\ pc = "profiled"
    /\ entry.dtype = "string"
    /\ entry.unique = 3
    /\ col_count(entry) = 100
    /\ Len(results.top_values) = 3

(***************************************************************************)
(* RerunSpec: one EnhancedDataCleaner instance runs comprehensive_clean    *)
(* twice on the same frame.  entry is what the caller keeps of the first   *)
(* run: its summary, and the length of the instance's log when the second  *)
(* run began.                                                              *)
(***************************************************************************)
RerunInit ==
    /\ pc = "clean_start"
    /\ df \in CleanFrames
    /\ config = ConfigNone
    /\ cleaned_df = NoFrame
    /\ cleaning_log = <<>>
    /\ stages_run = <<>>
    /\ entry = [run |-> 1, summary |-> None, entries_before |-> 0]
    /\ llm_calls = <<>>
    /\ target_column = NoTarget
    /\ characteristics = None
    /\ eda_type = None
    /\ results = None
    /\ exception = None

\* cleaner.comprehensive_clean(df) once more on the instance whose first
\* run returned: __init__ alone sets self.cleaning_log = [], so the list
\* keeps the entries of the first run
CleanAgain ==
    /\ pc = "cleaned"
    /\ entry.run = 1
    /\ entry' = [run |-> 2, summary |-> results, entries_before |-> Len(cleaning_log)]
    /\ config' = ConfigNone
    /\ pc' = "clean_start"
    /\ cleaned_df' = NoFrame
    /\ stages_run' = <<>>
    /\ UNCHANGED <<llm_calls, df, cleaning_log, target_column, characteristics, eda_type,
                   results, exception>>

RerunNext == CleanNext \/ CleanAgain

RerunSpec == RerunInit /\ [][RerunNext]_vars

\* The first summary as its holder reads it: summary['cleaning_log'] is
\* the list self.cleaning_log itself (line 754), not a copy of it
held_summary == [entry.summary EXCEPT !.cleaning_log = cleaning_log]

\* C29: when one instance runs comprehensive_clean twice, the summary of
\* the second run reports only the entries appended during that run, in
\* order, and the summary of the first run is not changed by the second.
C29_SummaryPerRun ==
    entry.run = 2
        => /\ held_summary = entry.summary
           /\ pc = "cleaned"
                => /\ results.cleaning_operations = Len(cleaning_log) - entry.entries_before
                   /\ results.cleaning_log
                        = SubSeq(cleaning_log, entry.entries_before + 1, Len(cleaning_log))

====
